---- MODULE Spec2Model ----
(***************************************************************************)
(* PgGo: the in-memory LRU/TTL cache (modules/MemCache.go), the table      *)
(* level cache orchestration (modules/Cache.go, TableFetch, TableUpdate,   *)
(* TableDelete, TableInsert) and the properties claimed of them.           *)
(*                                                                         *)
(* Time.  The code stamps an entry with time.Now().Add(ttl).UnixNano() and *)
(* compares it with time.Now().UnixNano().  Only the difference between a  *)
(* stamp and the current instant is ever observed, so every stamp is kept  *)
(* relative to the current instant: Now is the origin 0, a Tick of the     *)
(* clock lowers every stored stamp by one, and a stamp already in the past *)
(* stays at -1 (the clock is taken to be non-decreasing).                  *)
(***************************************************************************)
EXTENDS Integers, Sequences, FiniteSets, Bags, TLC

\* ------------------------------------------------------------------ bounds
MaxTTL == 2          \* largest ttl handed to Set, in clock ticks
MaxCap == 2          \* largest capacity handed to NewMemoryCache
NumRows == 1         \* rows the table can hold (serial ids 1..NumRows)
MaxUpdates == 1      \* updates a row can receive
MaxTasks == 2        \* detached goroutines alive at one time
TableTTL == 1        \* the ttl handed to EnableCache, in clock ticks
SmallCacheMax == 1   \* a CacheMax small enough for inserts to evict
MaxArgs == 3         \* arguments handed to getCacheKey

Keys == {"a", "b", "c"}
Values == {"v1", "v2"}
TTLs == (-1)..MaxTTL
Capacities == (-1)..MaxCap

Nil == "nil"
NoValue == "novalue"
Now == 0

RowIds == 1..NumRows
\* The ids of a table that is only ever inserted into: one row more.
InsertIds == 1..(NumRows + 1)
\* The strings fmt.Sprintf("%v", id) of the ids: the cache keys of a table.
TableKeys == {ToString(i) : i \in InsertIds}
AllKeys == Keys \cup TableKeys

VARIABLES
    mc,        \* the MemoryCache object: [items, evictList, maxSize]
    last,      \* the last call made on mc and what it returned
    touched,   \* history: the keys held, least recently touched first
    lastSet,   \* history: per key, the value and remaining ttl of its last Set
    tbl,       \* the Table object: [Name, Cached, CacheKey, CacheTTL, CacheMax]
    db,        \* the rows of the table in the data store
    cl,        \* per client: the Table call it is in and what it returned
    tasks,     \* the detached goroutines spawned by Table calls
    ack,       \* history: per row, the writes whose call has returned
    script,    \* the calls a scripted client still makes and their outcomes
    th,        \* per thread: the MemoryCache call it is in and its position
    mu,        \* the sync.RWMutex of the MemoryCache
    expect,    \* history: what the call holding the lock does when run alone
    keyArgs,   \* the whereArgs of the last getCacheKey call made on its own
    keyOut,    \* what that call returned
    sqlIn,     \* the call whose SQL is built on its own
    sqlOut,    \* the SQL text and the arguments built for it
    pool,      \* the pgx pool: its limit and the connections acquired from it
    ops        \* the callers of schema operations, each at its place in the code

cacheVars == <<mc, last, touched, lastSet>>
tableVars == <<tbl, db, cl, tasks, ack, script>>
concVars == <<th, mu, expect>>
keyVars == <<keyArgs, keyOut>>
sqlVars == <<sqlIn, sqlOut>>
poolVars == <<pool, ops>>
vars ==
    <<mc, last, touched, lastSet, tbl, db, cl, tasks, ack, script, th, mu,
      expect, keyArgs, keyOut, sqlIn, sqlOut, pool, ops>>

\* ------------------------------------------------- container/list helpers
\* An element is identified by the Key of its CacheItem: the Key is written
\* once (MemCache.go:49) and items[key] only ever points at the element
\* created for that key (MemCache.go:51).  The front of the list is index 1.

RECURSIVE IndexOf(_, _, _)
IndexOf(l, key, i) ==
    IF i > Len(l) THEN 0
    ELSE IF l[i].Key = key THEN i
    ELSE IndexOf(l, key, i + 1)

RemoveAt(l, i) == [j \in 1..(Len(l) - 1) |-> IF j < i THEN l[j] ELSE l[j + 1]]

\* list.Remove(e): a no-op when e is not an element of the list.
ListRemove(l, e) ==
    LET i == IndexOf(l, e, 1) IN IF i = 0 THEN l ELSE RemoveAt(l, i)

\* list.MoveToFront(e): a no-op when e is not an element of the list.
MoveToFront(l, e) ==
    LET i == IndexOf(l, e, 1) IN IF i = 0 THEN l ELSE <<l[i]>> \o RemoveAt(l, i)

PushFront(l, item) == <<item>> \o l

\* list.Back(): the element at the tail, Nil for an empty list.
Back(l) == IF Len(l) = 0 THEN Nil ELSE l[Len(l)].Key

\* ent.Value.(*CacheItem), through the element pointer e.
ItemOf(l, e) ==
    LET i == IndexOf(l, e, 1)
    IN IF i = 0 THEN [Key |-> e, Value |-> NoValue, Expiration |-> -1] ELSE l[i]

WriteItem(l, e, value, expiration) ==
    [j \in 1..Len(l) |->
        IF l[j].Key = e /\ j = IndexOf(l, e, 1)
        THEN [l[j] EXCEPT !.Value = value, !.Expiration = expiration]
        ELSE l[j]]

\* ------------------------------------------------------------ MemoryCache

NewMemoryCache(maxSize) ==
    [items |-> [k \in AllKeys |-> Nil], evictList |-> <<>>, maxSize |-> maxSize]

\* Mutant of removeElement: the index entry is left behind.
removeElementListOnly(c, e) == [c EXCEPT !.evictList = ListRemove(@, e)]

removeElement(c, e) ==
    LET kv == ItemOf(c.evictList, e)
    IN [c EXCEPT !.evictList = ListRemove(@, e), !.items[kv.Key] = Nil]

removeOldest(c) ==
    LET ent == Back(c.evictList)
    IN IF ent # Nil THEN removeElement(c, ent) ELSE c

\* Mutant of OverCapacity: the eviction test is off by one.
OverCapacityOffByOne(c) == c.maxSize > 0 /\ Len(c.evictList) > c.maxSize + 1

\* The test "Evict if needed" of Set.
OverCapacity(c) == c.maxSize > 0 /\ Len(c.evictList) > c.maxSize

\* Mutant of SetExisting: the expiration of the entry is not refreshed.
SetExistingKeepsExpiration(c, key, value, expiration) ==
    LET ent == c.items[key]
        l1 == MoveToFront(c.evictList, ent)
    IN [c EXCEPT !.evictList =
            WriteItem(l1, ent, value, ItemOf(l1, ent).Expiration)]

\* Mutant of SetExisting: the entry is rewritten where it stands in the list.
SetExistingNoPromote(c, key, value, expiration) ==
    [c EXCEPT !.evictList = WriteItem(@, c.items[key], value, expiration)]

\* The branch of Set for a key that is present.
SetExisting(c, key, value, expiration) ==
    LET ent == c.items[key]
    IN [c EXCEPT !.evictList =
            WriteItem(MoveToFront(@, ent), ent, value, expiration)]

\* The branch of Set for a new key.
SetNew(c, key, value, expiration) ==
    LET ent == [Key |-> key, Value |-> value, Expiration |-> expiration]
        c1 == [c EXCEPT !.evictList = PushFront(@, ent), !.items[key] = key]
    IN IF OverCapacity(c1) THEN removeOldest(c1) ELSE c1

Set(c, key, value, ttl) ==
    LET expiration == Now + ttl
    IN IF c.items[key] # Nil
       THEN SetExisting(c, key, value, expiration)
       ELSE SetNew(c, key, value, expiration)

\* Mutant of Expired: an entry is still served one tick after its expiration.
ExpiredOffByOne(item) == Now > item.Expiration + 1

\* The expiry test of Get.
ExpiredNever(item) == FALSE
Expired(item) == Now > item.Expiration

\* Mutant of GetHit: a hit does not promote the entry.
GetHitNoPromote(c, ent) ==
    [c |-> c, value |-> ItemOf(c.evictList, ent).Value, found |-> TRUE]

\* Mutant of GetHit: a hit renews the entry's expiration (sliding TTL).
GetHitSliding(c, ent) ==
    [c |-> [c EXCEPT !.evictList =
                [j \in 1..Len(@) |->
                    IF MoveToFront(@, ent)[j].Key = ent
                    THEN [MoveToFront(@, ent)[j] EXCEPT !.Expiration = Now + MaxTTL]
                    ELSE MoveToFront(@, ent)[j]]],
     value |-> ItemOf(c.evictList, ent).Value, found |-> TRUE]

\* The hit branch of Get.
GetHit(c, ent) ==
    [c |-> [c EXCEPT !.evictList = MoveToFront(@, ent)],
     value |-> ItemOf(c.evictList, ent).Value, found |-> TRUE]

\* Get returns the cache after the call together with (value, found).
Get(c, key) ==
    IF c.items[key] # Nil
    THEN LET ent == c.items[key]
         IN IF Expired(ItemOf(c.evictList, ent))
            THEN [c |-> removeElement(c, ent), value |-> NoValue, found |-> FALSE]
            ELSE GetHit(c, ent)
    ELSE [c |-> c, value |-> NoValue, found |-> FALSE]

\* Mutant of Delete: the least recently used entry goes as well.
DeleteAndOldest(c, key) ==
    IF c.items[key] # Nil THEN removeOldest(removeElement(c, c.items[key])) ELSE c

Delete(c, key) ==
    IF c.items[key] # Nil THEN removeElement(c, c.items[key]) ELSE c

\* Mutant of Clear: the index is replaced, the recency list is left as it was.
ClearIndexOnly(c) == [c EXCEPT !.items = [k \in AllKeys |-> Nil]]

Clear(c) == [c EXCEPT !.items = [k \in AllKeys |-> Nil], !.evictList = <<>>]

\* Mutant of Elapse: a sweeper removes every expired entry as the clock moves.
ElapseSweeping(c) ==
    LET aged == [j \in 1..Len(c.evictList) |->
                    [c.evictList[j] EXCEPT
                        !.Expiration = IF @ < 0 THEN @ ELSE @ - 1]]
        kept == SelectSeq(aged, LAMBDA item : ~Expired(item))
    IN [c EXCEPT !.evictList = kept,
                 !.items = [k \in AllKeys |->
                              IF \E j \in 1..Len(kept) : kept[j].Key = k
                              THEN c.items[k] ELSE Nil]]

\* The clock moves on by one tick: every stamp comes one tick nearer.
Elapse(c) ==
    [c EXCEPT !.evictList =
        [j \in 1..Len(@) |->
            [@[j] EXCEPT !.Expiration = IF @ < 0 THEN @ ELSE @ - 1]]]

\* ---------------------------------------------------------- observations
Held(c) == {k \in AllKeys : c.items[k] # Nil}
Listed(c) == {c.evictList[i].Key : i \in 1..Len(c.evictList)}

NoSet == [set |-> FALSE]
WasSet(value, ttl) == [set |-> TRUE, value |-> value, left |-> ttl]

SeqWithout(s, drop) == SelectSeq(s, LAMBDA x : x \notin drop)
\* key becomes the most recently touched; keys that left the cache are dropped.
Touch(s, key, c2) ==
    SeqWithout(SeqWithout(s, {key}) \o <<key>>, AllKeys \ Held(c2))

\* -------------------------------------------------- the cache on its own
\* No table uses the cache, and no thread is inside a call.
TableUnused ==
    tbl = <<>> /\ db = <<>> /\ cl = <<>> /\ tasks = <<>> /\ ack = <<>> /\ script = <<>>
ConcUnused == th = <<>> /\ mu = <<>> /\ expect = <<>>
KeyUnused == keyArgs = <<>> /\ keyOut = <<>>
SqlUnused == sqlIn = <<>> /\ sqlOut = <<>>
PoolUnused == pool = <<>> /\ ops = <<>>

CacheInit ==
    /\ \E n \in Capacities : mc = NewMemoryCache(n)
    /\ last = [op |-> "New"]
    /\ touched = <<>>
    /\ lastSet = [k \in Keys |-> NoSet]
    /\ TableUnused
    /\ ConcUnused
    /\ KeyUnused
    /\ SqlUnused
    /\ PoolUnused

DoSet(key, value, ttl) ==
    LET c2 == Set(mc, key, value, ttl)
        gone == Held(mc) \ Held(c2)
    IN /\ mc' = c2
       /\ last' = [op |-> "Set", key |-> key, fresh |-> key \notin Held(mc),
                   evicted |-> gone,
                   live |-> {k \in gone : ~Expired(ItemOf(mc.evictList, k))}]
       /\ touched' = Touch(touched, key, c2)
       /\ lastSet' = [k \in Keys |->
                        IF k \in gone THEN NoSet
                        ELSE IF k = key THEN WasSet(value, ttl)
                        ELSE lastSet[k]]
       /\ UNCHANGED <<tableVars, concVars, keyVars, sqlVars, poolVars>>

DoGet(key) ==
    LET r == Get(mc, key)
    IN /\ mc' = r.c
       /\ last' = [op |-> "Get", key |-> key, value |-> r.value, found |-> r.found,
                   purged |-> key \in Held(mc) \ Held(r.c),
                   moved |-> r.c.evictList # mc.evictList]
       /\ touched' = IF r.found THEN Touch(touched, key, r.c)
                     ELSE SeqWithout(touched, AllKeys \ Held(r.c))
       /\ lastSet' = [lastSet EXCEPT ![key] =
                        IF @.set /\ @.left < 0 THEN NoSet ELSE @]
       /\ UNCHANGED <<tableVars, concVars, keyVars, sqlVars, poolVars>>

DoDelete(key) ==
    LET c2 == Delete(mc, key)
    IN /\ mc' = c2
       /\ last' = [op |-> "Delete", key |-> key, present |-> key \in Held(mc)]
       /\ touched' = SeqWithout(touched, AllKeys \ Held(c2))
       /\ lastSet' = [lastSet EXCEPT ![key] = NoSet]
       /\ UNCHANGED <<tableVars, concVars, keyVars, sqlVars, poolVars>>

DoClear ==
    /\ mc' = Clear(mc)
    /\ last' = [op |-> "Clear", held |-> Held(mc)]
    /\ touched' = SeqWithout(touched, AllKeys \ Held(mc'))
    /\ lastSet' = [k \in Keys |-> NoSet]
    /\ UNCHANGED <<tableVars, concVars, keyVars, sqlVars, poolVars>>

Tick ==
    /\ mc' = Elapse(mc)
    /\ last' = [op |-> "Tick"]
    /\ lastSet' = [k \in Keys |->
                     IF lastSet[k].set /\ lastSet[k].left >= 0
                     THEN [lastSet[k] EXCEPT !.left = @ - 1]
                     ELSE lastSet[k]]
    /\ UNCHANGED <<touched, tableVars, concVars, keyVars, sqlVars, poolVars>>

CacheNext ==
    \/ \E k \in Keys, v \in Values, t \in TTLs : DoSet(k, v, t)
    \/ \E k \in Keys : DoGet(k)
    \/ \E k \in Keys : DoDelete(k)
    \/ DoClear
    \/ Tick

Spec == CacheInit /\ [][CacheNext]_vars

\* ================================================ the cache under threads
\* Each call is split at the source lines that read or write the index or
\* the recency list; threads interleave between any two of them.
Threads == {"t1", "t2"}
ConcKeys == {"a", "b"}
ConcValues == {"v1"}
ConcTTLs == {-1, MaxTTL}

NoThread == "none"
NoRet == [value |-> NoValue, found |-> FALSE]
IdleThread ==
    [pc |-> "idle", op |-> "none", key |-> Nil, value |-> NoValue, ttl |-> 0,
     ent |-> Nil, ret |-> NoRet]
NoExpect == [c |-> <<>>, ret |-> NoRet]

\* c.mu.Lock() opens Set, Get, Delete and Clear alike.
LockKindGetShared(op) == IF op = "Get" THEN "RLock" ELSE "Lock"
LockKind(op) == "Lock"

EntryPc(op) ==
    CASE op = "Set" -> "set41"
      [] op = "Get" -> "get79"
      [] op = "Delete" -> "del93"
      [] OTHER -> "clear103"
EntryPcs == {"set41", "get79", "del93", "clear103"}

\* What the call does to cache c when nothing runs in between.
Alone(c, call) ==
    CASE call.op = "Set" ->
            [c |-> Set(c, call.key, call.value, call.ttl), ret |-> NoRet]
      [] call.op = "Get" ->
            LET r == Get(c, call.key)
            IN [c |-> r.c, ret |-> [value |-> r.value, found |-> r.found]]
      [] call.op = "Delete" -> [c |-> Delete(c, call.key), ret |-> NoRet]
      [] OTHER -> [c |-> Clear(c), ret |-> NoRet]

Coherent(c) ==
    /\ Held(c) = Listed(c)
    /\ Cardinality(Held(c)) = Len(c.evictList)

InsideLock(t) == th[t].pc \notin {"idle", "lock"}

concFrame ==
    <<last, touched, lastSet, tbl, db, cl, tasks, ack, script, keyArgs, keyOut, sqlIn, sqlOut, pool, ops>>

ConcInit ==
    /\ \E n \in Capacities : mc = NewMemoryCache(n)
    /\ th = [t \in Threads |-> IdleThread]
    /\ mu = [w |-> NoThread, r |-> {}]
    /\ expect = [t \in Threads |-> NoExpect]
    /\ last = [op |-> "New"] /\ touched = <<>> /\ lastSet = <<>>
    /\ TableUnused
    /\ KeyUnused
    /\ SqlUnused
    /\ PoolUnused

\* A thread enters Set, Get, Delete or Clear and reaches its Lock().
Call(t, op, key, value, ttl) ==
    /\ th[t].pc = "idle"
    /\ th' = [th EXCEPT ![t] =
                [IdleThread EXCEPT !.pc = "lock", !.op = op, !.key = key,
                                   !.value = value, !.ttl = ttl]]
    /\ UNCHANGED <<mc, mu, expect, concFrame>>

AcquireLock(t) ==
    /\ th[t].pc = "lock"
    /\ mu.w = NoThread
    /\ IF LockKind(th[t].op) = "Lock"
       THEN mu.r = {} /\ mu' = [mu EXCEPT !.w = t]
       ELSE mu' = [mu EXCEPT !.r = @ \cup {t}]
    /\ th' = [th EXCEPT ![t].pc = EntryPc(th[t].op)]
    /\ expect' = [expect EXCEPT ![t] = Alone(mc, th[t])]
    /\ UNCHANGED <<mc, concFrame>>

\* The deferred c.mu.Unlock(): the call returns th[t].ret.
Unlock(t) ==
    /\ th[t].pc = "unlock"
    /\ mu' = [w |-> IF mu.w = t THEN NoThread ELSE mu.w, r |-> mu.r \ {t}]
    /\ th' = [th EXCEPT ![t] = IdleThread]
    /\ expect' = [expect EXCEPT ![t] = NoExpect]
    /\ UNCHANGED <<mc, concFrame>>

\* A step of thread t from pc to pc2 that leaves the cache as c2.
Step(t, pc, pc2, c2, ent, ret) ==
    /\ th[t].pc = pc
    /\ mc' = c2
    /\ th' = [th EXCEPT ![t].pc = pc2, ![t].ent = ent, ![t].ret = ret]
    /\ UNCHANGED <<mu, expect, concFrame>>

Set41(t) ==
    LET ent == mc.items[th[t].key]
    IN Step(t, "set41", IF ent # Nil THEN "set42" ELSE "set50", mc, ent, NoRet)
Set42(t) ==
    Step(t, "set42", "set43",
         [mc EXCEPT !.evictList = MoveToFront(@, th[t].ent)], th[t].ent, NoRet)
Set43(t) ==
    LET item == ItemOf(mc.evictList, th[t].ent)
    IN Step(t, "set43", "set44",
            [mc EXCEPT !.evictList =
                WriteItem(@, th[t].ent, th[t].value, item.Expiration)],
            th[t].ent, NoRet)
Set44(t) ==
    LET item == ItemOf(mc.evictList, th[t].ent)
    IN Step(t, "set44", "unlock",
            [mc EXCEPT !.evictList =
                WriteItem(@, th[t].ent, item.Value, Now + th[t].ttl)],
            th[t].ent, NoRet)
Set50(t) ==
    LET item == [Key |-> th[t].key, Value |-> th[t].value,
                 Expiration |-> Now + th[t].ttl]
    IN Step(t, "set50", "set51",
            [mc EXCEPT !.evictList = PushFront(@, item)], th[t].key, NoRet)
Set51(t) ==
    Step(t, "set51", "set54",
         [mc EXCEPT !.items[th[t].key] = th[t].ent], th[t].ent, NoRet)
\* The capacity test, and removeOldest's read of the back of the list.
Set54(t) ==
    LET ent == Back(mc.evictList)
    IN IF OverCapacity(mc) /\ ent # Nil
       THEN Step(t, "set54", "rm69", mc, ent, NoRet)
       ELSE Step(t, "set54", "unlock", mc, th[t].ent, NoRet)

\* removeElement, for Set's eviction, Get's purge and Delete.
Rm69(t) ==
    Step(t, "rm69", "rm71",
         [mc EXCEPT !.evictList = ListRemove(@, th[t].ent)], th[t].ent, th[t].ret)
Rm71(t) ==
    Step(t, "rm71", "unlock",
         [mc EXCEPT !.items[th[t].ent] = Nil], th[t].ent, th[t].ret)

Get79(t) ==
    LET ent == mc.items[th[t].key]
    IN Step(t, "get79", IF ent # Nil THEN "get80" ELSE "unlock", mc, ent, NoRet)
Get80(t) ==
    Step(t, "get80",
         IF Expired(ItemOf(mc.evictList, th[t].ent)) THEN "rm69" ELSE "get84",
         mc, th[t].ent, NoRet)
Get84(t) ==
    Step(t, "get84", "get85",
         [mc EXCEPT !.evictList = MoveToFront(@, th[t].ent)], th[t].ent, NoRet)
Get85(t) ==
    Step(t, "get85", "unlock", mc, th[t].ent,
         [value |-> ItemOf(mc.evictList, th[t].ent).Value, found |-> TRUE])

Del93(t) ==
    LET ent == mc.items[th[t].key]
    IN Step(t, "del93", IF ent # Nil THEN "rm69" ELSE "unlock", mc, ent, NoRet)

Clear103(t) ==
    Step(t, "clear103", "clear104",
         [mc EXCEPT !.items = [k \in AllKeys |-> Nil]], Nil, NoRet)
Clear104(t) ==
    Step(t, "clear104", "unlock", [mc EXCEPT !.evictList = <<>>], Nil, NoRet)

ConcNext ==
    \/ \E t \in Threads, k \in ConcKeys, v \in ConcValues, ttl \in ConcTTLs :
            Call(t, "Set", k, v, ttl)
    \/ \E t \in Threads, op \in {"Get", "Delete"}, k \in ConcKeys :
            Call(t, op, k, NoValue, 0)
    \/ \E t \in Threads : Call(t, "Clear", Nil, NoValue, 0)
    \/ \E t \in Threads : AcquireLock(t)
    \/ \E t \in Threads : Unlock(t)
    \/ \E t \in Threads : Set41(t) \/ Set42(t) \/ Set43(t) \/ Set44(t)
    \/ \E t \in Threads : Set50(t) \/ Set51(t) \/ Set54(t)
    \/ \E t \in Threads : Rm69(t) \/ Rm71(t)
    \/ \E t \in Threads : Get79(t) \/ Get80(t) \/ Get84(t) \/ Get85(t)
    \/ \E t \in Threads : Del93(t) \/ Clear103(t) \/ Clear104(t)

SpecConc == ConcInit /\ [][ConcNext]_vars

\* ===================================================== the cached Table
\* ------------------------------------------------ values, rows and JSON
\* A Go value carries its dynamic type; a row is a map from column to value.
Int32(n) == [t |-> "int", v |-> n]
Float64(n) == [t |-> "float64", v |-> n]
Str(s) == [t |-> "string", s |-> s]
Number(n) == [t |-> "number", v |-> n]
MapArg(m) == [t |-> "map", m |-> m]
\* A float64 NaN, as pgx returns it from a double precision column.
NaN(bits) == [t |-> "nan", v |-> bits]

RECURSIVE Pow10(_)
Pow10(k) == IF k = 0 THEN 1 ELSE 10 * Pow10(k - 1)
RECURSIVE Exp10(_)
Exp10(n) == IF n < 10 THEN 0 ELSE 1 + Exp10(n \div 10)
RECURSIVE StripZeros(_)
StripZeros(n) == IF n >= 10 /\ n % 10 = 0 THEN StripZeros(n \div 10) ELSE n
RECURSIVE DigitString(_, _)
DigitString(n, k) ==
    IF k = 0 THEN ""
    ELSE ToString((n \div Pow10(k - 1)) % 10) \o DigitString(n, k - 1)
\* %v of a float64 is %g with the shortest digits: the exponent form from 1e+06.
ExpForm(n) ==
    LET e == Exp10(n)
        m == StripZeros(n)
        k == Exp10(m)
    IN ToString(m \div Pow10(k))
         \o (IF k = 0 THEN "" ELSE "." \o DigitString(m, k))
         \o "e+" \o (IF e < 10 THEN "0" ELSE "") \o ToString(e)

\* fmt.Sprintf("%v", val) of a non-negative whole number, a string or a map
\* of one column.
RECURSIVE Sprint(_)
Sprint(x) ==
    IF x.t = "string" THEN x.s
    ELSE IF x.t = "map"
    THEN LET col == CHOOSE f \in DOMAIN x.m : TRUE
         IN "map[" \o col \o ":" \o Sprint(x.m[col]) \o "]"
    ELSE IF x.t = "float64" /\ x.v >= 1000000 THEN ExpForm(x.v)
    ELSE ToString(x.v)

\* json.Marshal fails on a NaN ("unsupported value").
Marshalable(row) == \A f \in DOMAIN row : row[f].t # "nan"
\* Bytes that are not the JSON of an object, put there by CacheData.Set.
Garbage == [raw |-> "not json"]
Decodable(data) == data # Garbage
\* json.Marshal of a row: every Go number becomes a JSON number.
Marshal(row) ==
    [f \in DOMAIN row |->
        IF row[f].t \in {"int", "float64"} THEN Number(row[f].v) ELSE row[f]]
\* json.Unmarshal into map[string]interface{}: a JSON number becomes float64.
Unmarshal(data) ==
    [f \in DOMAIN data |->
        IF data[f].t = "number" THEN Float64(data[f].v) ELSE data[f]]

\* ---------------------------------------------------------- the Table
InitialAge == 25
DefaultCacheMax == 1000

UsersTable ==
    [Name |-> "test_cache_users", Cached |-> FALSE, CacheKey |-> "id",
     CacheTTL |-> 0, CacheMax |-> 0]

\* Mutant of EnableCache: every call after the first enlarges the capacity.
EnableCacheGrows(t, ttl) ==
    [t EXCEPT !.Cached = TRUE, !.CacheTTL = ttl,
              !.CacheMax = IF @ = 0 THEN DefaultCacheMax ELSE @ + 1]

\* The MemoryCache it creates is the variable mc (see TableInit).
EnableCache(t, ttl) ==
    [t EXCEPT !.Cached = TRUE, !.CacheTTL = ttl,
              !.CacheMax = IF @ = 0 THEN DefaultCacheMax ELSE @]

T == EnableCache(UsersTable, TableTTL)
\* The same table declared without a CacheKey.
NoKeyTable == EnableCache([UsersTable EXCEPT !.CacheKey = ""], TableTTL)

\* return "", fmt.Errorf(...) and return fmt.Sprintf("%v", val), nil
KeyError(msg) == [ok |-> FALSE, key |-> "", err |-> msg]
KeyFound(val) == [ok |-> TRUE, key |-> Sprint(val), err |-> "nil"]
RECURSIVE FirstMapWith(_, _, _)
FirstMapWith(whereArgs, col, i) ==
    IF i > Len(whereArgs) THEN 0
    ELSE IF whereArgs[i].t = "map" /\ col \in DOMAIN whereArgs[i].m THEN i
    ELSE FirstMapWith(whereArgs, col, i + 1)
RECURSIVE FirstPairWith(_, _, _)
FirstPairWith(whereArgs, col, i) ==
    IF i > Len(whereArgs) - 1 THEN 0
    ELSE IF whereArgs[i].t = "string" /\ whereArgs[i].s = col THEN i
    ELSE FirstPairWith(whereArgs, col, i + 2)

\* getCacheKey, had it looked at CacheKey before Cached.
getCacheKeyKeyFirst(t, whereArgs) ==
    IF t.CacheKey = "" THEN KeyError("CacheKey is not defined for this table")
    ELSE IF ~t.Cached THEN KeyError("caching is not enabled for this table")
    ELSE LET i == FirstMapWith(whereArgs, t.CacheKey, 1)
             j == FirstPairWith(whereArgs, t.CacheKey, 1)
         IN IF i # 0 THEN KeyFound(whereArgs[i].m[t.CacheKey])
            ELSE IF j # 0 THEN KeyFound(whereArgs[j + 1])
            ELSE KeyError("CacheKey '" \o t.CacheKey \o "' not found in whereArgs")
getCacheKey(t, whereArgs) ==
    IF ~t.Cached THEN KeyError("caching is not enabled for this table")
    ELSE IF t.CacheKey = "" THEN KeyError("CacheKey is not defined for this table")
    ELSE LET i == FirstMapWith(whereArgs, t.CacheKey, 1)
             j == FirstPairWith(whereArgs, t.CacheKey, 1)
         IN IF i # 0 THEN KeyFound(whereArgs[i].m[t.CacheKey])
            ELSE IF j # 0 THEN KeyFound(whereArgs[j + 1])
            ELSE KeyError("CacheKey '" \o t.CacheKey \o "' not found in whereArgs")

setCache(t, c, key, value) ==
    IF ~t.Cached THEN c
    ELSE IF ~Marshalable(value) THEN c
    ELSE Set(c, key, Marshal(value), t.CacheTTL)

\* getCacheValue, had it reported a value it could not decode as found.
getCacheValueFoundOnError(t, c, key) ==
    IF ~t.Cached THEN [c |-> c, found |-> FALSE, target |-> <<>>]
    ELSE LET r == Get(c, key)
         IN IF ~r.found THEN [c |-> r.c, found |-> FALSE, target |-> <<>>]
            ELSE IF ~Decodable(r.value)
            THEN [c |-> r.c, found |-> TRUE, target |-> <<>>]
            ELSE [c |-> r.c, found |-> TRUE, target |-> Unmarshal(r.value)]
getCacheValue(t, c, key) ==
    IF ~t.Cached THEN [c |-> c, found |-> FALSE, target |-> <<>>]
    ELSE LET r == Get(c, key)
         IN IF ~r.found THEN [c |-> r.c, found |-> FALSE, target |-> <<>>]
            ELSE IF ~Decodable(r.value)
            THEN [c |-> r.c, found |-> FALSE, target |-> <<>>]
            ELSE [c |-> r.c, found |-> TRUE, target |-> Unmarshal(r.value)]

deleteCache(t, c, key) == IF ~t.Cached THEN c ELSE Delete(c, key)

\* Mutant of invalidateCache: nothing is cleared.
invalidateCacheSkipped(t, c) == c

invalidateCache(t, c) == IF ~t.Cached THEN c ELSE Clear(c)

\* populateRow, had Insert's goroutine invalidated before it set.
populateRowAfterClear(t, c, row) ==
    LET k == getCacheKey(t, <<MapArg(row)>>)
    IN IF k.ok THEN setCache(t, invalidateCache(t, c), k.key, row) ELSE c

\* populateRow, had it fallen back on the id column when no key resolves.
populateRowGuessingKey(t, c, row) ==
    LET k == getCacheKey(t, <<MapArg(row)>>)
    IN IF k.ok THEN setCache(t, c, k.key, row)
       ELSE setCache(t, c, Sprint(row.id), row)

\* What one iteration of a detached goroutine's loop does with a row.
\* Mutant of populateRow: the row is cached as it was when it was inserted.
populateRowStale(t, c, row) ==
    LET k == getCacheKey(t, <<MapArg(row)>>)
    IN IF k.ok THEN setCache(t, c, k.key, [row EXCEPT !.age = Int32(InitialAge)])
       ELSE c

\* Mutant of populateRow: every row is stored under the key of the first row.
populateRowOneKey(t, c, row) ==
    IF getCacheKey(t, <<MapArg(row)>>).ok THEN setCache(t, c, Sprint(Int32(1)), row)
    ELSE c

populateRow(t, c, row) ==
    LET k == getCacheKey(t, <<MapArg(row)>>)
    IN IF k.ok THEN setCache(t, c, k.key, row) ELSE c
evictRow(t, c, row) ==
    LET k == getCacheKey(t, <<MapArg(row)>>)
    IN IF k.ok THEN deleteCache(t, c, k.key) ELSE c

\* ------------------------------------------------------ the data store
\* Serial ids are handed out in order and never again.
Absent == [st |-> "absent", age |-> 0]
NextId(d) == Cardinality({i \in DOMAIN d : d[i].st # "absent"}) + 1
\* The age a double precision column holds when it holds NaN.
NaNAge == -1
RowOf(d, i) ==
    [id |-> Int32(i),
     age |-> IF d[i].age = NaNAge THEN NaN(d[i].age) ELSE Int32(d[i].age)]

\* The map form of a WHERE: every column of every map equals the row's.
Matches(row, whereArgs) ==
    \A i \in 1..Len(whereArgs) :
        whereArgs[i].t = "map" =>
            \A col \in DOMAIN whereArgs[i].m :
                col \in DOMAIN row /\ row[col] = whereArgs[i].m[col]

RECURSIVE SelectFrom(_, _, _)
SelectFrom(d, whereArgs, i) ==
    IF i > Len(d) THEN <<>>
    ELSE (IF d[i].st = "live" /\ Matches(RowOf(d, i), whereArgs)
          THEN <<RowOf(d, i)>> ELSE <<>>) \o SelectFrom(d, whereArgs, i + 1)
Select(d, whereArgs) == SelectFrom(d, whereArgs, 1)
Hit(d, whereArgs) ==
    {i \in DOMAIN d : d[i].st = "live" /\ Matches(RowOf(d, i), whereArgs)}

ById(id) == <<MapArg([id |-> Int32(id)])>>
\* A filter on a column that is not the cache key.
ByAge(age) == <<MapArg([age |-> Int32(age)])>>
\* The filter a client passes: one column and the value it must equal.
\* A filter on the cache key and on another column.
ByIdAndAge(id, age) == <<MapArg([id |-> Int32(id), age |-> Int32(age)])>>
\* The age the two-column filter asks for: the age an Update sets.
FilterAge == InitialAge + 1
Where(col, n) ==
    IF col = "id" THEN ById(n)
    ELSE IF col = "age" THEN ByAge(n)
    ELSE ByIdAndAge(n, FilterAge)

\* -------------------------------------------------- clients and goroutines
Clients == {"c1", "c2"}
Ages == (InitialAge + 1)..(InitialAge + MaxUpdates)

NoFloor == [age |-> 0, del |-> FALSE]
NoResult == [kind |-> "none"]
Task(kind, rows) == [kind |-> kind, rows |-> rows]
IdleClient ==
    [pc |-> "idle", op |-> "none", args |-> <<>>, rows |-> <<>>,
     floor |-> NoFloor, res |-> NoResult, fault |-> "none"]
\* A client inside a call, and a client whose call has returned res.
Inside(pc, op, whereArgs, rows, floor) ==
    [pc |-> pc, op |-> op, args |-> whereArgs, rows |-> rows,
     floor |-> floor, res |-> NoResult, fault |-> "none"]
Returned(op, whereArgs, floor, res) ==
    [pc |-> "idle", op |-> op, args |-> whereArgs, rows |-> <<>>,
     floor |-> floor, res |-> res, fault |-> "none"]
RowResult(row, hit) == [kind |-> "row", row |-> row, hit |-> hit]
RowsResult(rows) == [kind |-> "rows", rows |-> rows]
ErrorResult(msg) == [kind |-> "error", msg |-> msg]

\* The goroutines alive are a bag: which of two equal ones runs is immaterial.
CanSpawn == BagCardinality(tasks) < MaxTasks
\* Mutant of Spawn: no goroutine is started.
SpawnNothing(kind, rows) == tasks

\* go func(rows) { for _, row := range rows { ... } }(results); one that is
\* handed no rows ends at once.
Spawn(kind, rows) ==
    IF ~tbl.Cached \/ rows = <<>> THEN tasks
    ELSE tasks (+) SetToBag({Task(kind, rows)})

IdOf(row) == row.id.v
IdsOf(rows) == {IdOf(rows[i]) : i \in 1..Len(rows)}
AgeOf(rows, id) == (CHOOSE i \in 1..Len(rows) : IdOf(rows[i]) = id)
Max(a, b) == IF a >= b THEN a ELSE b

\* The writes to the row a read resolves to whose call had returned before
\* the read began.
FloorOf(whereArgs) ==
    LET k == getCacheKey(tbl, whereArgs)
    IN IF k.ok /\ k.key \in {ToString(i) : i \in DOMAIN ack}
       THEN ack[CHOOSE i \in DOMAIN ack : ToString(i) = k.key]
       ELSE NoFloor

\* Clients call what they like (script = <<>>), or one client makes the calls
\* of a script in order, one after the other, and their outcomes are kept.
Scripted == script # <<>>
Scenarist == "c1"
MayCall(c, call) ==
    Scripted => /\ c = Scenarist
                /\ script.todo # <<>>
                /\ Head(script.todo) = call
AfterStep(c, started, cl2) ==
    IF ~Scripted THEN script
    ELSE [todo |-> IF started THEN Tail(script.todo) ELSE script.todo,
          done |-> IF cl2[c].pc = "idle" THEN Append(script.done, cl2[c].res)
                   ELSE script.done]

tableFrame ==
    <<last, touched, lastSet, tbl, th, mu, expect, keyArgs, keyOut, sqlIn, sqlOut, pool, ops>>

\* The table is created empty, with its cache enabled.
TableStartWith(t, ids) ==
    /\ tbl = t
    /\ mc = NewMemoryCache(t.CacheMax)
    /\ db = [i \in ids |-> Absent]
    /\ cl = [c \in Clients |-> IdleClient]
    /\ tasks = EmptyBag
    /\ ack = [i \in ids |-> NoFloor]
    /\ last = [op |-> "New"] /\ touched = <<>> /\ lastSet = <<>>
    /\ ConcUnused
    /\ KeyUnused
    /\ SqlUnused
    /\ PoolUnused

TableStart == TableStartWith(T, RowIds)

TableInit == TableStart /\ script = <<>>

\* What the data store does with a statement.  "acquire": GetConnection
\* fails.  "query": conn.Query returns an error.  "rows": the statement fails
\* while it runs (a constraint, a timeout, a lost connection); pgx reports
\* that through rows.Err() once rows.Next() has returned false, and no caller
\* in this package reads rows.Err().
Faults == {"none", "acquire", "query", "rows"}
Refused(fault) == fault \in {"acquire", "query"}
FaultError(fault, what) ==
    ErrorResult(IF fault = "acquire" THEN "failed to acquire connection"
                ELSE "failed to execute " \o what)
Faulted(client, fault) == [client EXCEPT !.fault = fault]

CallInsert(c, age, fault) ==
    /\ cl[c].pc = "idle"
    /\ MayCall(c, [op |-> "Insert"])
    /\ NextId(db) \in DOMAIN db
    /\ CanSpawn
    /\ LET i == NextId(db)
           d2 == [db EXCEPT ![i] = [st |-> "live", age |-> age]]
           result == RowOf(d2, i)
       IN IF fault = "none"
          THEN /\ db' = d2
               /\ tasks' = Spawn("set", <<result>>)
               /\ cl' = [cl EXCEPT ![c] =
                           Returned("Insert", <<>>, NoFloor,
                                    RowResult(result, FALSE))]
          ELSE /\ UNCHANGED <<db, tasks>>
               /\ cl' = [cl EXCEPT ![c] =
                           Faulted(Returned("Insert", <<>>, NoFloor,
                                     IF Refused(fault)
                                     THEN FaultError(fault, "insert with returning")
                                     ELSE ErrorResult("no rows returned")),
                                   fault)]
    /\ UNCHANGED <<mc, ack, tableFrame>>
    /\ script' = AfterStep(c, TRUE, cl')

CallFetchOne(c, col, n) ==
    /\ cl[c].pc = "idle"
    /\ MayCall(c, [op |-> "FetchOne", args |-> Where(col, n)])
    /\ LET whereArgs == Where(col, n)
           k == getCacheKey(tbl, whereArgs)
           r == IF tbl.Cached /\ k.ok THEN getCacheValue(tbl, mc, k.key)
                ELSE [c |-> mc, found |-> FALSE, target |-> <<>>]
           floor == FloorOf(whereArgs)
       IN /\ mc' = r.c
          /\ cl' = [cl EXCEPT ![c] =
                      IF r.found
                      THEN Returned("FetchOne", whereArgs, floor,
                                    RowResult(r.target, TRUE))
                      ELSE Inside("fo_query", "FetchOne", whereArgs, <<>>, floor)]
    /\ UNCHANGED <<db, tasks, ack, tableFrame>>
    /\ script' = AfterStep(c, TRUE, cl')

FetchOneQuery(c, fault) ==
    /\ cl[c].pc = "fo_query"
    /\ LET rows == IF fault = "none" THEN Select(db, cl[c].args) ELSE <<>>
       IN cl' = [cl EXCEPT ![c] =
                   IF Refused(fault)
                   THEN Faulted(Returned("FetchOne", @.args, @.floor,
                                         FaultError(fault, "fetch one")), fault)
                   ELSE IF rows = <<>>
                   THEN Faulted(Returned("FetchOne", @.args, @.floor,
                                         ErrorResult("no rows found")), fault)
                   ELSE Inside("fo_set", "FetchOne", @.args, <<Head(rows)>>,
                               @.floor)]
    /\ UNCHANGED <<mc, db, tasks, ack, tableFrame>>
    /\ script' = AfterStep(c, FALSE, cl')

\* FetchOne's "Save to cache": the key comes from the result row.
saveResultByFilter(t, c, whereArgs, result) ==
    LET k == getCacheKey(t, whereArgs)
    IN IF t.Cached /\ k.ok THEN setCache(t, c, k.key, result) ELSE c
saveResult(t, c, whereArgs, result) ==
    IF t.Cached THEN populateRow(t, c, result) ELSE c

FetchOneSet(c) ==
    /\ cl[c].pc = "fo_set"
    /\ LET result == cl[c].rows[1]
       IN /\ mc' = saveResult(tbl, mc, cl[c].args, result)
          /\ cl' = [cl EXCEPT ![c] =
                      Returned("FetchOne", @.args, @.floor,
                               RowResult(result, FALSE))]
    /\ UNCHANGED <<db, tasks, ack, tableFrame>>
    /\ script' = AfterStep(c, FALSE, cl')

\* The rows FetchMany hands back: the data store's, whatever the cache holds.
fetchManyFromCache(d, c, whereArgs) ==
    LET rows == Select(d, whereArgs)
    IN [i \in 1..Len(rows) |->
          LET e == c.items[Sprint(rows[i].id)]
          IN IF e # Nil THEN Unmarshal(ItemOf(c.evictList, e).Value)
             ELSE rows[i]]
fetchMany(d, c, whereArgs) == Select(d, whereArgs)

CallFetchMany(c, fault) ==
    /\ cl[c].pc = "idle"
    /\ MayCall(c, [op |-> "FetchMany"])
    /\ CanSpawn
    /\ LET results == IF fault = "none" THEN fetchMany(db, mc, <<>>) ELSE <<>>
       IN IF Refused(fault)
          THEN /\ UNCHANGED tasks
               /\ cl' = [cl EXCEPT ![c] =
                           Faulted(Returned("FetchMany", <<>>, NoFloor,
                                            FaultError(fault, "fetch many")),
                                   fault)]
          ELSE /\ tasks' = Spawn("set", results)
               /\ cl' = [cl EXCEPT ![c] =
                           Faulted(Returned("FetchMany", <<>>, NoFloor,
                                            RowsResult(results)), fault)]
    /\ UNCHANGED <<mc, db, ack, tableFrame>>
    /\ script' = AfterStep(c, TRUE, cl')

CallUpdate(c, age, id, fault) ==
    /\ cl[c].pc = "idle"
    /\ MayCall(c, [op |-> "Update", age |-> age, args |-> ById(id)])
    /\ CanSpawn
    /\ \A i \in Hit(db, ById(id)) : db[i].age < age
    /\ LET whereArgs == ById(id)
           d2 == [i \in DOMAIN db |->
                    IF i \in Hit(db, whereArgs) THEN [db[i] EXCEPT !.age = age]
                    ELSE db[i]]
           results == Select(d2, whereArgs)
       IN IF Refused(fault)
          THEN /\ UNCHANGED <<db, tasks>>
               /\ cl' = [cl EXCEPT ![c] =
                           Faulted(Returned("Update", whereArgs, NoFloor,
                                     FaultError(fault, "update with returning")),
                                   fault)]
          ELSE IF fault = "rows"
          THEN /\ UNCHANGED <<db, tasks>>
               /\ cl' = [cl EXCEPT ![c] =
                           Faulted(Inside("upd_clear", "Update", whereArgs, <<>>,
                                          NoFloor), fault)]
          ELSE /\ db' = d2
               /\ tasks' = Spawn("set", results)
               /\ cl' = [cl EXCEPT ![c] =
                           Inside("upd_clear", "Update", whereArgs, results,
                                  NoFloor)]
    /\ UNCHANGED <<mc, ack, tableFrame>>
    /\ script' = AfterStep(c, TRUE, cl')

UpdateClear(c) ==
    /\ cl[c].pc = "upd_clear"
    /\ mc' = invalidateCache(tbl, mc)
    /\ ack' = [i \in DOMAIN ack |->
                 IF i \in IdsOf(cl[c].rows)
                 THEN [ack[i] EXCEPT
                         !.age = Max(@, cl[c].rows[AgeOf(cl[c].rows, i)].age.v)]
                 ELSE ack[i]]
    /\ cl' = [cl EXCEPT ![c] =
                Faulted(Returned("Update", @.args, NoFloor, RowsResult(@.rows)),
                        @.fault)]
    /\ UNCHANGED <<db, tasks, tableFrame>>
    /\ script' = AfterStep(c, FALSE, cl')

CallDelete(c, id, fault) ==
    /\ cl[c].pc = "idle"
    /\ MayCall(c, [op |-> "Delete", args |-> ById(id)])
    /\ CanSpawn
    /\ LET whereArgs == ById(id)
           results == Select(db, whereArgs)
       IN IF Refused(fault)
          THEN /\ UNCHANGED <<db, tasks>>
               /\ cl' = [cl EXCEPT ![c] =
                           Faulted(Returned("Delete", whereArgs, NoFloor,
                                     FaultError(fault, "delete with returning")),
                                   fault)]
          ELSE IF fault = "rows"
          THEN /\ UNCHANGED <<db, tasks>>
               /\ cl' = [cl EXCEPT ![c] =
                           Faulted(Inside("del_clear", "Delete", whereArgs, <<>>,
                                          NoFloor), fault)]
          ELSE /\ db' = [i \in DOMAIN db |->
                           IF i \in Hit(db, whereArgs)
                           THEN [db[i] EXCEPT !.st = "deleted"]
                           ELSE db[i]]
               /\ tasks' = Spawn("del", results)
               /\ cl' = [cl EXCEPT ![c] =
                           Inside("del_clear", "Delete", whereArgs, results,
                                  NoFloor)]
    /\ UNCHANGED <<mc, ack, tableFrame>>
    /\ script' = AfterStep(c, TRUE, cl')

DeleteClear(c) ==
    /\ cl[c].pc = "del_clear"
    /\ mc' = invalidateCache(tbl, mc)
    /\ ack' = [i \in DOMAIN ack |->
                 IF i \in IdsOf(cl[c].rows) THEN [ack[i] EXCEPT !.del = TRUE]
                 ELSE ack[i]]
    /\ cl' = [cl EXCEPT ![c] =
                Faulted(Returned("Delete", @.args, NoFloor, RowsResult(@.rows)),
                        @.fault)]
    /\ UNCHANGED <<db, tasks, tableFrame>>
    /\ script' = AfterStep(c, FALSE, cl')

\* One iteration of a detached goroutine's loop; it ends after its last row.
TaskStep(task) ==
    /\ BagIn(task, tasks)
    /\ LET row == Head(task.rows)
       IN mc' = IF task.kind = "set" THEN populateRow(tbl, mc, row)
                ELSE evictRow(tbl, mc, row)
    /\ tasks' = (tasks (-) SetToBag({task}))
                   (+) (IF Len(task.rows) = 1 THEN EmptyBag
                        ELSE SetToBag({Task(task.kind, Tail(task.rows))}))
    /\ UNCHANGED <<db, cl, ack, script, tableFrame>>

\* The clock of the cache advances by one tick.
TableTick ==
    /\ mc' = Elapse(mc)
    /\ UNCHANGED <<db, cl, tasks, ack, script, tableFrame>>

TableNext ==
    \/ \E c \in Clients, f \in Faults : CallInsert(c, InitialAge, f)
    \/ \E c \in Clients, i \in RowIds : CallFetchOne(c, "id", i)
    \/ \E c \in Clients : CallFetchOne(c, "age", InitialAge)
    \/ \E c \in Clients, f \in Faults : FetchOneQuery(c, f)
    \/ \E c \in Clients : FetchOneSet(c)
    \/ \E c \in Clients, f \in Faults : CallFetchMany(c, f)
    \/ \E c \in Clients, a \in Ages, i \in RowIds, f \in Faults :
            CallUpdate(c, a, i, f)
    \/ \E c \in Clients : UpdateClear(c)
    \/ \E c \in Clients, i \in RowIds, f \in Faults :
            CallDelete(c, i, f)
    \/ \E c \in Clients : DeleteClear(c)
    \/ \E task \in BagToSet(tasks) : TaskStep(task)
    \/ TableTick

SpecTable == TableInit /\ [][TableNext]_vars
SpecTableFair == TableInit /\ [][TableNext]_vars /\ WF_vars(TableTick)

\* --------------------------------------------- inserts into a small cache
\* A table whose CacheMax was set before EnableCache, and one that left it 0.
SmallTable == EnableCache([UsersTable EXCEPT !.CacheMax = SmallCacheMax], TableTTL)

InsertInit ==
    /\ \E t \in {T, SmallTable} : TableStartWith(t, InsertIds)
    /\ script = <<>>

InsertNext ==
    \/ \E c \in Clients, f \in Faults : CallInsert(c, InitialAge, f)
    \/ \E c \in Clients, i \in InsertIds : CallFetchOne(c, "id", i)
    \/ \E c \in Clients, f \in Faults : FetchOneQuery(c, f)
    \/ \E c \in Clients : FetchOneSet(c)
    \/ \E task \in BagToSet(tasks) : TaskStep(task)
    \/ TableTick

SpecInsert == InsertInit /\ [][InsertNext]_vars

\* ------------------------------------------ reads through a failing cache
\* The program stores bytes of its own through the exported CacheData.
ForeignSet(key) ==
    /\ tbl.Cached
    /\ mc' = Set(mc, key, Garbage, tbl.CacheTTL)
    /\ UNCHANGED <<db, cl, tasks, ack, script, tableFrame>>

DegradedInit == TableInit

DegradedNext ==
    \/ \E c \in Clients, a \in {InitialAge, NaNAge}, f \in Faults :
            CallInsert(c, a, f)
    \/ \E c \in Clients, i \in RowIds : CallFetchOne(c, "id", i)
    \/ \E c \in Clients : CallFetchOne(c, "age", InitialAge)
    \/ \E c \in Clients, f \in Faults : FetchOneQuery(c, f)
    \/ \E c \in Clients : FetchOneSet(c)
    \/ \E task \in BagToSet(tasks) : TaskStep(task)
    \/ \E i \in RowIds : ForeignSet(ToString(i))
    \/ TableTick

SpecDegraded == DegradedInit /\ [][DegradedNext]_vars

\* ------------------------------------------------ getCacheKey on its own
\* The arguments handed to getCacheKey: maps of one column, column names and
\* values, among them an id at which %v of a float64 turns to the exponent
\* form.
BigId == 1000000
KeyValues == {Int32(5), Float64(5), Int32(BigId), Float64(BigId)}
KeyArgs ==
    {MapArg([id |-> x]) : x \in KeyValues}
        \cup {MapArg([name |-> Str("n")]), Str("id"), Str("name")}
        \cup KeyValues
ArgLists == UNION {[1..n -> KeyArgs] : n \in 0..MaxArgs}

KeyTables == {UsersTable, [UsersTable EXCEPT !.CacheKey = ""], T, NoKeyTable}

NotCalled == [ok |-> FALSE, key |-> "", err |-> "not called"]

KeyInit ==
    /\ \E t \in KeyTables : tbl = t /\ mc = NewMemoryCache(t.CacheMax)
    /\ keyArgs \in ArgLists
    /\ keyOut = NotCalled
    /\ SqlUnused
    /\ PoolUnused
    /\ db = <<>> /\ cl = <<>> /\ tasks = <<>> /\ ack = <<>> /\ script = <<>>
    /\ last = [op |-> "New"] /\ touched = <<>> /\ lastSet = <<>>
    /\ ConcUnused

ResolveKey ==
    /\ keyOut = NotCalled
    /\ keyOut' = getCacheKey(tbl, keyArgs)
    /\ UNCHANGED <<mc, keyArgs, cacheVars, tableVars, concVars, sqlVars, poolVars>>

KeyNext == ResolveKey

SpecKey == KeyInit /\ [][KeyNext]_vars

\* ------------------------------------------- a table without a CacheKey
NoKeyInit == TableStartWith(NoKeyTable, RowIds) /\ script = <<>>

SpecNoKey == NoKeyInit /\ [][TableNext]_vars

\* ------------------------------------------------- the test of the cache
\* Tests 1, 2 and 4 of the cache test suite: one client, no entry outlives
\* its ttl of five seconds.
Alice == 1
CacheTest ==
    << [op |-> "Insert"],
       [op |-> "FetchOne", args |-> ById(Alice)],
       [op |-> "FetchOne", args |-> ById(Alice)],
       [op |-> "Update", age |-> InitialAge + 1, args |-> ById(Alice)],
       [op |-> "FetchOne", args |-> ById(Alice)] >>

ScenarioInit == TableStart /\ script = [todo |-> CacheTest, done |-> <<>>]

\* Time passes, but no entry reaches the end of its ttl during the test.
ScenarioTick ==
    /\ \A i \in 1..Len(mc.evictList) : mc.evictList[i].Expiration > Now
    /\ TableTick

ScenarioNext ==
    \/ CallInsert(Scenarist, InitialAge, "none")
    \/ CallFetchOne(Scenarist, "id", Alice)
    \/ FetchOneQuery(Scenarist, "none")
    \/ FetchOneSet(Scenarist)
    \/ CallUpdate(Scenarist, InitialAge + 1, Alice, "none")
    \/ UpdateClear(Scenarist)
    \/ \E task \in BagToSet(tasks) : TaskStep(task)
    \/ ScenarioTick

SpecScenario == ScenarioInit /\ [][ScenarioNext]_vars

\* ============================================ a sequence of cache calls
\* One caller makes up to MaxCalls calls of Set and Get on a cache of its own,
\* while time passes; script is the log of the calls and of what they did.
MaxCalls == 4

SetCall(key, gone) == [op |-> "Set", key |-> key, gone |-> gone]
GetCall(key, found) == [op |-> "Get", key |-> key, found |-> found]

SequenceInit ==
    /\ \E n \in Capacities : mc = NewMemoryCache(n)
    /\ script = <<>>
    /\ last = [op |-> "New"]
    /\ touched = <<>>
    /\ lastSet = <<>>
    /\ tbl = <<>> /\ db = <<>> /\ cl = <<>> /\ tasks = <<>> /\ ack = <<>>
    /\ ConcUnused
    /\ KeyUnused
    /\ SqlUnused
    /\ PoolUnused

sequenceFrame == <<last, touched, lastSet, tbl, db, cl, tasks, ack, concVars, keyVars, sqlVars, poolVars>>

LogSet(key, ttl) ==
    /\ Len(script) < MaxCalls
    /\ mc' = Set(mc, key, "v1", ttl)
    /\ script' = Append(script, SetCall(key, Held(mc) \ Held(mc')))
    /\ UNCHANGED sequenceFrame

LogGet(key) ==
    /\ Len(script) < MaxCalls
    /\ mc' = Get(mc, key).c
    /\ script' = Append(script, GetCall(key, Get(mc, key).found))
    /\ UNCHANGED sequenceFrame

LogTick ==
    /\ mc' = Elapse(mc)
    /\ UNCHANGED <<script, sequenceFrame>>

SequenceNext ==
    \/ \E key \in Keys, ttl \in TTLs : LogSet(key, ttl)
    \/ \E key \in Keys : LogGet(key)
    \/ LogTick

SpecSequence == SequenceInit /\ [][SequenceNext]_vars

\* ================================================== enabling the cache
\* A table declared with any CacheMax is enabled, used and enabled again, up
\* to MaxCalls calls; script is the log of the calls. Before the first
\* EnableCache the field CacheData is nil and, Cached being false, nothing
\* reads it: mc is written as an empty cache there.
EnableInit ==
    /\ \E n \in Capacities : tbl = [UsersTable EXCEPT !.CacheMax = n]
    /\ mc = NewMemoryCache(0)
    /\ script = <<>>
    /\ last = [op |-> "New"] /\ touched = <<>> /\ lastSet = <<>>
    /\ db = <<>> /\ cl = <<>> /\ tasks = <<>> /\ ack = <<>>
    /\ ConcUnused
    /\ KeyUnused
    /\ SqlUnused
    /\ PoolUnused

enableFrame == <<last, touched, lastSet, db, cl, tasks, ack, concVars, keyVars, sqlVars, poolVars>>

\* t.EnableCache(ttl): the fields of the table, and a new MemoryCache.
CallEnableCache(ttl) ==
    /\ Len(script) < MaxCalls
    /\ tbl' = EnableCache(tbl, ttl)
    /\ mc' = NewMemoryCache(tbl'.CacheMax)
    /\ script' = Append(script, [op |-> "EnableCache", ttl |-> ttl])
    /\ UNCHANGED enableFrame

\* A row read from the store is put into the cache.
CacheRow(id) ==
    /\ Len(script) < MaxCalls
    /\ mc' = populateRow(tbl, mc, [id |-> Int32(id), age |-> Int32(InitialAge)])
    /\ script' = Append(script, [op |-> "setCache", id |-> id])
    /\ UNCHANGED <<tbl, enableFrame>>

EnableTick ==
    /\ mc' = Elapse(mc)
    /\ UNCHANGED <<tbl, script, enableFrame>>

EnableNext ==
    \/ \E ttl \in TTLs : CallEnableCache(ttl)
    \/ \E id \in InsertIds : CacheRow(id)
    \/ EnableTick

SpecEnable == EnableInit /\ [][EnableNext]_vars

\* ================================================== one caller's reads
\* One caller makes every call of the table, one after the other, on a table
\* of up to two rows; the store answers every statement. FetchOne filters on
\* the cache key, on the age, or on both.
FilterInit == TableStartWith(T, InsertIds) /\ script = <<>>

FilterNext ==
    \/ CallInsert(Scenarist, InitialAge, "none")
    \/ \E col \in {"id", "id+age"}, i \in InsertIds : CallFetchOne(Scenarist, col, i)
    \/ CallFetchOne(Scenarist, "age", InitialAge)
    \/ FetchOneQuery(Scenarist, "none")
    \/ FetchOneSet(Scenarist)
    \/ CallFetchMany(Scenarist, "none")
    \/ \E a \in Ages, i \in InsertIds : CallUpdate(Scenarist, a, i, "none")
    \/ UpdateClear(Scenarist)
    \/ \E i \in InsertIds : CallDelete(Scenarist, i, "none")
    \/ DeleteClear(Scenarist)
    \/ \E task \in BagToSet(tasks) : TaskStep(task)
    \/ TableTick

SpecFilter == FilterInit /\ [][FilterNext]_vars

\* ============================================ a caller changes its rows
\* The map Insert, FetchMany and Update return is the map their goroutine
\* later hands to setCache. Once the call has returned the caller may write
\* to that map; the goroutine encodes what the map holds when it gets there.
\* ForeignAge is an age the data store never holds.
ForeignAge == InitialAge + MaxUpdates + 1

SharedInit == TableStartWith(T, InsertIds) /\ script = <<>>

\* row["age"] = ForeignAge, on the next row a pending goroutine will encode.
CallerMutates(task) ==
    /\ BagIn(task, tasks)
    /\ task.kind = "set"
    /\ \A c \in Clients : cl[c].pc = "idle"
    /\ Head(task.rows).age # Int32(ForeignAge)
    /\ tasks' = (tasks (-) SetToBag({task}))
                   (+) SetToBag({Task("set",
                          <<[Head(task.rows) EXCEPT !.age = Int32(ForeignAge)]>>
                              \o Tail(task.rows))})
    /\ UNCHANGED <<mc, db, cl, ack, script, tableFrame>>

SharedNext ==
    \/ CallInsert(Scenarist, InitialAge, "none")
    \/ CallFetchMany(Scenarist, "none")
    \/ \E a \in Ages, i \in InsertIds : CallUpdate(Scenarist, a, i, "none")
    \/ UpdateClear(Scenarist)
    \/ \E task \in BagToSet(tasks) : CallerMutates(task)
    \/ \E task \in BagToSet(tasks) : TaskStep(task)
    \/ TableTick

SpecShared == SharedInit /\ [][SharedNext]_vars

\* ==================================================== the connection pool
\* GetConnection is pool.Acquire(context.Background()): it returns a
\* connection when fewer than the limit are out and waits, with no deadline,
\* when all are. Callers run CreateTable and DropTable; DropTable stands for
\* every operation that acquires one connection, runs its statement and
\* releases (Insert, the fetches, Update, Delete do the same). The data store
\* answers every statement.
MaxPool == 2
PoolLimits == 1..MaxPool
IdleOp == [pc |-> "idle", held |-> 0]
\* The places where a caller stands in GetConnection.
AcquirePcs == {"ct_acquire", "gc1_acquire", "add_acquire", "gc2_acquire",
               "rm_acquire", "dt_acquire"}
\* Where a caller stands once GetConnection has returned.
Acquired(pc) ==
    IF pc = "ct_acquire" THEN "ct_exec"
    ELSE IF pc = "gc1_acquire" THEN "gc1_query"
    ELSE IF pc = "add_acquire" THEN "add_exec"
    ELSE IF pc = "gc2_acquire" THEN "gc2_query"
    ELSE IF pc = "rm_acquire" THEN "rm_exec"
    ELSE "dt_exec"

PoolInit ==
    /\ \E n \in PoolLimits : pool = [max |-> n, acquired |-> 0]
    /\ ops = [c \in Clients |-> IdleOp]
    /\ mc = <<>> /\ last = <<>> /\ touched = <<>> /\ lastSet = <<>>
    /\ TableUnused
    /\ ConcUnused
    /\ KeyUnused
    /\ SqlUnused

poolFrame == <<cacheVars, tableVars, concVars, keyVars, sqlVars>>
At(c, pc) == [ops EXCEPT ![c].pc = pc]
\* conn.Release(): the caller gives one connection back and goes on to pc.
Release(c, pc) ==
    /\ ops' = [ops EXCEPT ![c] = [pc |-> pc, held |-> @.held - 1]]
    /\ pool' = [pool EXCEPT !.acquired = @ - 1]

CallCreateTable(c) ==
    /\ ops[c].pc = "idle"
    /\ ops' = At(c, "ct_acquire")
    /\ UNCHANGED <<pool, poolFrame>>

CallDropTable(c) ==
    /\ ops[c].pc = "idle"
    /\ ops' = At(c, "dt_acquire")
    /\ UNCHANGED <<pool, poolFrame>>

\* pool.Acquire returns: a connection is free.
GetConnection(c) ==
    /\ ops[c].pc \in AcquirePcs
    /\ pool.acquired < pool.max
    /\ pool' = [pool EXCEPT !.acquired = @ + 1]
    /\ ops' = [ops EXCEPT ![c] = [pc |-> Acquired(@.pc), held |-> @.held + 1]]
    /\ UNCHANGED poolFrame

\* CreateTable: defer conn.Release(); conn.Exec(CREATE TABLE ...); then
\* t.createCurrentColumn(), which begins with GetColumnsFromDB.
CreateExec(c) ==
    /\ ops[c].pc = "ct_exec"
    /\ ops' = At(c, "gc1_acquire")
    /\ UNCHANGED <<pool, poolFrame>>

\* GetColumnsFromDB runs its query and returns, releasing its connection.
\* more: createCurrentColumn finds a column to add, or
\* deleteNonExistingColumnsFromDB one to remove.
GetColumnsFromDB(c, more) ==
    /\ ops[c].pc \in {"gc1_query", "gc2_query"}
    /\ Release(c, IF ops[c].pc = "gc1_query"
                  THEN (IF more THEN "add_acquire" ELSE "gc2_acquire")
                  ELSE (IF more THEN "rm_acquire" ELSE "ct_return"))
    /\ UNCHANGED poolFrame

\* addColumn runs ALTER TABLE ... ADD COLUMN and returns; then
\* t.deleteNonExistingColumnsFromDB() begins with GetColumnsFromDB.
addColumn(c) ==
    /\ ops[c].pc = "add_exec"
    /\ Release(c, "gc2_acquire")
    /\ UNCHANGED poolFrame

\* removeColumn runs ALTER TABLE ... DROP COLUMN and returns.
removeColumn(c) ==
    /\ ops[c].pc = "rm_exec"
    /\ Release(c, "ct_return")
    /\ UNCHANGED poolFrame

\* CreateTable returns nil: the deferred conn.Release() runs.
CreateReturn(c) ==
    /\ ops[c].pc = "ct_return"
    /\ Release(c, "idle")
    /\ UNCHANGED poolFrame

\* DropTable runs its statement and returns, releasing its connection.
DropExec(c) ==
    /\ ops[c].pc = "dt_exec"
    /\ Release(c, "idle")
    /\ UNCHANGED poolFrame

PoolNext ==
    \/ \E c \in Clients : CallCreateTable(c)
    \/ \E c \in Clients : CallDropTable(c)
    \/ \E c \in Clients : GetConnection(c)
    \/ \E c \in Clients : CreateExec(c)
    \/ \E c \in Clients, more \in BOOLEAN : GetColumnsFromDB(c, more)
    \/ \E c \in Clients : addColumn(c)
    \/ \E c \in Clients : removeColumn(c)
    \/ \E c \in Clients : CreateReturn(c)
    \/ \E c \in Clients : DropExec(c)

SpecPool == PoolInit /\ [][PoolNext]_vars

\* ======================================================= a lone caller
\* One caller makes up to MaxCalls calls, one after the other; after each it
\* waits until the detached task of the call has finished, and then looks at
\* the cache. touched is the log of what it saw.
Quiet ==
    /\ cl[Scenarist] = IdleClient
    /\ tasks = EmptyBag
    /\ Len(touched) < MaxCalls

AloneInit == TableStartWith(T, InsertIds) /\ script = <<>>

Seen(client, c) ==
    [op |-> client.op, res |-> client.res, fault |-> client.fault,
     cache |-> c.evictList]

Settle ==
    /\ cl[Scenarist].pc = "idle"
    /\ cl[Scenarist].op # "none"
    /\ tasks = EmptyBag
    /\ touched' = Append(touched, Seen(cl[Scenarist], mc))
    /\ cl' = [cl EXCEPT ![Scenarist] = IdleClient]
    /\ UNCHANGED <<mc, last, lastSet, tbl, db, tasks, ack, script, concVars, keyVars, sqlVars, poolVars>>

\* The calls of the lone caller: each begins when nothing is in flight.
AloneInsert == Quiet /\ CallInsert(Scenarist, InitialAge, "none")
AloneUpdate(age, id, fault) == Quiet /\ CallUpdate(Scenarist, age, id, fault)
AloneDelete(id, fault) == Quiet /\ CallDelete(Scenarist, id, fault)

AloneNext ==
    \/ AloneInsert
    \/ \E a \in Ages, i \in InsertIds, f \in Faults : AloneUpdate(a, i, f)
    \/ UpdateClear(Scenarist)
    \/ \E i \in InsertIds, f \in Faults : AloneDelete(i, f)
    \/ DeleteClear(Scenarist)
    \/ \E task \in BagToSet(tasks) : TaskStep(task)
    \/ TableTick
    \/ Settle

SpecAlone == AloneInit /\ [][AloneNext]_vars

\* ============================================ fetches and their tasks
\* One caller inserts rows and deletes them, every caller fetches them all;
\* the scheduler runs every detached goroutine that is ready (weak fairness
\* for each of them).
FetchInit == TableStartWith(T, InsertIds) /\ script = <<>>

FetchNext ==
    \/ CallInsert(Scenarist, InitialAge, "none")
    \/ \E c \in Clients, f \in Faults : CallFetchMany(c, f)
    \/ \E i \in InsertIds : CallDelete(Scenarist, i, "none")
    \/ DeleteClear(Scenarist)
    \/ \E task \in BagToSet(tasks) : TaskStep(task)
    \/ TableTick

\* The rows a statement of these callers can return, and the goroutines
\* that can be running with them.
FetchedRows == {[id |-> Int32(i), age |-> Int32(InitialAge)] : i \in InsertIds}
RowLists == UNION {[1..n -> FetchedRows] : n \in 1..Cardinality(InsertIds)}
Goroutines == {Task(kind, rows) : kind \in {"set", "del"}, rows \in RowLists}

SpecFetchFair ==
    /\ FetchInit
    /\ [][FetchNext]_vars
    /\ \A task \in Goroutines : WF_vars(TaskStep(task))

\* ======================================================= building SQL
\* A Go string of SQL is the sequence of the pieces it was put together
\* from; its text is their concatenation. A double quote is always a piece
\* of its own, and so is every placeholder $n.
Quote == "\""
RECURSIVE Text(_)
Text(pieces) == IF pieces = <<>> THEN "" ELSE Head(pieces) \o Text(Tail(pieces))

\* strings.Join(parts, sep)
RECURSIVE Join(_, _)
Join(parts, sep) ==
    IF parts = <<>> THEN <<>>
    ELSE IF Len(parts) = 1 THEN parts[1]
    ELSE parts[1] \o <<sep>> \o Join(Tail(parts), sep)

\* strings.ReplaceAll(ident, `"`, `""`)
RECURSIVE ReplaceAll(_)
ReplaceAll(ident) ==
    IF ident = <<>> THEN <<>>
    ELSE (IF Head(ident) = Quote THEN <<Quote, Quote>> ELSE <<Head(ident)>>)
             \o ReplaceAll(Tail(ident))

QuoteIdentifier(ident) == <<Quote>> \o ReplaceAll(ident) \o <<Quote>>

\* fmt.Sprintf("$%d", n)
Placeholder(n) == "$" \o ToString(n)
Placeholders(from, n) == [i \in 1..n |-> <<Placeholder(from + i - 1)>>]

\* ---------------------------------------------------------- Conditions
NilValue == [t |-> "nil"]
Slice(elems) == [t |-> "slice", elems |-> elems]

Condition(type, values) == [t |-> "Condition", Type |-> type, Values |-> values]
\* Condition{}
NoCondition == Condition("", <<>>)

In(values) == Condition("IN", <<values>>)
Gt(value) == Condition(">", <<value>>)
Lt(value) == Condition("<", <<value>>)
Gte(value) == Condition(">=", <<value>>)
Lte(value) == Condition("<=", <<value>>)
Neq(value) == Condition("!=", <<value>>)
Like(pattern) == Condition("LIKE", <<pattern>>)
IsNull == Condition("IS NULL", <<>>)
IsNotNull == Condition("IS NOT NULL", <<>>)

\* Mutant of Between: a missing bound is kept as a bound.
BetweenAlways(from, to) == Condition("BETWEEN", <<from, to>>)

Between(from, to) ==
    IF from = NilValue /\ to = NilValue THEN NoCondition
    ELSE IF from = NilValue THEN Condition("<=", <<to>>)
    ELSE IF to = NilValue THEN Condition(">=", <<from>>)
    ELSE Condition("BETWEEN", <<from, to>>)

\* Mutant of EmptySlice: an empty slice is listed like any other.
EmptySliceNever(v) == FALSE

\* rv.Kind() == reflect.Slice with rv.Len() == 0
EmptySlice(v) == v.t = "slice" /\ Len(v.elems) = 0

\* What ToSQL returns, and the value it leaves in *argIndex.
Fragment(sql, args, argIndex) == [sql |-> sql, args |-> args, argIndex |-> argIndex]
\* Mutant of OneValue: *argIndex is left where it was.
OneValueStuck(c, col, argIndex, operator) ==
    [sql |-> col \o <<" " \o operator \o " ", Placeholder(argIndex)>>,
     args |-> <<c.Values[1]>>, argIndex |-> argIndex]

\* The cases of ToSQL that compare the column with one value.
OneValue(c, col, argIndex, operator) ==
    Fragment(col \o <<" " \o operator \o " ", Placeholder(argIndex)>>,
             <<c.Values[1]>>, argIndex + 1)

ToSQL(c, col, argIndex) ==
    IF c.Type = "IN"
    THEN LET valSlice == c.Values[1]
         IN IF EmptySlice(valSlice) THEN Fragment(<<"1=0">>, <<>>, argIndex)
            ELSE IF valSlice.t = "slice"
            THEN Fragment(col \o <<" IN (">>
                              \o Join(Placeholders(argIndex, Len(valSlice.elems)), ", ")
                              \o <<")">>,
                          valSlice.elems, argIndex + Len(valSlice.elems))
            ELSE Fragment(col \o <<" IN (", Placeholder(argIndex), ")">>,
                          <<valSlice>>, argIndex + 1)
    ELSE IF c.Type = "BETWEEN"
    THEN Fragment(col \o <<" BETWEEN ", Placeholder(argIndex), " AND ",
                          Placeholder(argIndex + 1)>>,
                  <<c.Values[1], c.Values[2]>>, argIndex + 2)
    ELSE IF c.Type = "IS NULL" THEN Fragment(col \o <<" IS NULL">>, <<>>, argIndex)
    ELSE IF c.Type = "IS NOT NULL"
    THEN Fragment(col \o <<" IS NOT NULL">>, <<>>, argIndex)
    ELSE IF c.Type = "LIKE" THEN OneValue(c, col, argIndex, "ILIKE")
    ELSE IF c.Type \in {">", "<", ">=", "<=", "!="}
    THEN OneValue(c, col, argIndex, c.Type)
    ELSE Fragment(<<>>, <<>>, argIndex)

\* ------------------------------------------------ a Condition on its own
\* A constructor of Conditions.go is called with values among nil, integers
\* and slices of up to MaxElems integers, and ToSQL is called on what it
\* returns with a quoted column and any value of *argIndex up to MaxArgs.
MaxElems == 2
Elems == {Int32(1), Int32(2)}
Slices == UNION {[1..n -> Elems] : n \in 0..MaxElems}
CondValues == {NilValue} \cup Elems \cup {Slice(e) : e \in Slices}
Constructors ==
    {"In", "Between", "Gt", "Lt", "Gte", "Lte", "Neq", "Like", "IsNull", "IsNotNull"}
Columns == {<<"id">>, <<"a", Quote, "b">>}

\* The Condition a call of a constructor returns.
Construct(call) ==
    IF call.fn = "In" THEN In(call.a)
    ELSE IF call.fn = "Between" THEN Between(call.a, call.b)
    ELSE IF call.fn = "Gt" THEN Gt(call.a)
    ELSE IF call.fn = "Lt" THEN Lt(call.a)
    ELSE IF call.fn = "Gte" THEN Gte(call.a)
    ELSE IF call.fn = "Lte" THEN Lte(call.a)
    ELSE IF call.fn = "Neq" THEN Neq(call.a)
    ELSE IF call.fn = "Like" THEN Like(call.a)
    ELSE IF call.fn = "IsNull" THEN IsNull
    ELSE IsNotNull

NotBuilt == [built |-> FALSE]

ConditionInit ==
    /\ \E fn \in Constructors, a \in CondValues, b \in CondValues,
          col \in Columns, n \in 1..MaxArgs :
            sqlIn = [fn |-> fn, a |-> a,
                     b |-> IF fn = "Between" THEN b ELSE NilValue,
                     col |-> QuoteIdentifier(col), argIndex |-> n]
    /\ sqlOut = NotBuilt
    /\ mc = <<>> /\ last = <<>> /\ touched = <<>> /\ lastSet = <<>>
    /\ tbl = <<>> /\ db = <<>> /\ cl = <<>> /\ tasks = <<>> /\ ack = <<>>
    /\ script = <<>>
    /\ ConcUnused
    /\ KeyUnused
    /\ PoolUnused

\* cond := fn(a, b); sql, args := cond.ToSQL(col, &argIndex)
CallToSQL ==
    /\ sqlOut = NotBuilt
    /\ LET cond == Construct(sqlIn)
       IN sqlOut' = [built |-> TRUE, cond |-> cond,
                     out |-> ToSQL(cond, sqlIn.col, sqlIn.argIndex)]
    /\ UNCHANGED <<sqlIn, poolVars, cacheVars, tableVars, concVars, keyVars>>

ConditionNext == CallToSQL

SpecCondition == ConditionInit /\ [][ConditionNext]_vars

\* ----------------------------------------------------- the WHERE clause
\* A map is the sequence of its entries in the order the range loop visits
\* them; a raw string argument is Str of its pieces.
MapOf(pairs) == [t |-> "map", pairs |-> pairs]
Entry(key, val) == [key |-> key, val |-> val]

Where0(argIndex) == [conditions |-> <<>>, args |-> <<>>, argIndex |-> argIndex]

\* for key, val := range v { ... }
RECURSIVE WherePairs(_, _)
WherePairs(pairs, acc) ==
    IF pairs = <<>> THEN acc
    ELSE LET val == Head(pairs).val
             quotedKey == QuoteIdentifier(Head(pairs).key)
             cond == ToSQL(val, quotedKey, acc.argIndex)
         IN WherePairs(Tail(pairs),
                IF val.t = "Condition"
                THEN [conditions |-> Append(acc.conditions, cond.sql),
                      args |-> acc.args \o cond.args,
                      argIndex |-> cond.argIndex]
                ELSE [conditions |->
                          Append(acc.conditions,
                                 quotedKey \o <<" = ", Placeholder(acc.argIndex)>>),
                      args |-> Append(acc.args, val),
                      argIndex |-> acc.argIndex + 1])

\* for _, arg := range whereArgs { switch v := arg.(type) ... }
RECURSIVE WhereLoop(_, _)
WhereLoop(whereArgs, acc) ==
    IF whereArgs = <<>> THEN acc
    ELSE LET v == Head(whereArgs)
         IN WhereLoop(Tail(whereArgs),
                IF v.t = "map" THEN WherePairs(v.pairs, acc)
                ELSE IF v.t = "string"
                THEN [acc EXCEPT !.conditions = Append(@, v.s)]
                ELSE [acc EXCEPT !.args = Append(@, v)])

buildWhereClause(whereArgs, argIndex) ==
    LET r == WhereLoop(whereArgs, Where0(argIndex))
    IN [clause |-> IF r.conditions = <<>> THEN <<>>
                   ELSE <<" WHERE ">> \o Join(r.conditions, " AND "),
        args |-> r.args,
        argIndex |-> r.argIndex]

\* ------------------------------------------------------- the statements
\* What is handed to conn.Query or conn.Exec, or the error returned before.
Statement(sql, args) == [ok |-> TRUE, sql |-> sql, args |-> args]
Failure(msg) == [ok |-> FALSE, err |-> msg]
returningClause == <<" RETURNING *">>

\* validColumns[col]
ValidColumn(t, col) == \E i \in 1..Len(t.Columns) : t.Columns[i].Name = col
ValidEntries(t, data) == SelectSeq(data, LAMBDA e : ValidColumn(t, e.key))

CreateTableSQL(t) ==
    LET columnDefs == [i \in 1..Len(t.Columns) |->
                          QuoteIdentifier(t.Columns[i].Name)
                              \o <<" ", t.Columns[i].DataType>>]
    IN Statement(<<"CREATE TABLE IF NOT EXISTS ">> \o QuoteIdentifier(t.Name)
                     \o <<" (">> \o Join(columnDefs, ", ") \o <<")">>,
                 <<>>)

DropTableSQL(t) ==
    Statement(<<"DROP TABLE IF EXISTS ">> \o QuoteIdentifier(t.Name), <<>>)

InsertSQL(t, data) ==
    LET valid == ValidEntries(t, data)
        columns == [i \in 1..Len(valid) |-> QuoteIdentifier(valid[i].key)]
        args == [i \in 1..Len(valid) |-> valid[i].val]
    IN IF columns = <<>> THEN Failure("no valid columns provided for insert")
       ELSE Statement(<<"INSERT INTO ">> \o t.Name \o <<" (">>
                          \o Join(columns, ", ") \o <<") VALUES (">>
                          \o Join(Placeholders(1, Len(columns)), ", ")
                          \o <<")">> \o returningClause,
                      args)

\* data[colName]
Lookup(data, colName) ==
    IF \E i \in 1..Len(data) : data[i].key = colName
    THEN data[CHOOSE i \in 1..Len(data) : data[i].key = colName].val
    ELSE NilValue

InsertManySQL(t, dataList) ==
    IF dataList = <<>> THEN Failure("no data provided to insert")
    ELSE LET first == ValidEntries(t, dataList[1])
             rawColumns == [i \in 1..Len(first) |-> first[i].key]
             columns == [i \in 1..Len(first) |-> QuoteIdentifier(first[i].key)]
             n == Len(columns)
             valuePlaceholders ==
                 [r \in 1..Len(dataList) |->
                     <<"(">> \o Join(Placeholders((r - 1) * n + 1, n), ", ")
                         \o <<")">>]
             args == [k \in 1..(Len(dataList) * n) |->
                         Lookup(dataList[((k - 1) \div n) + 1],
                                rawColumns[((k - 1) % n) + 1])]
         IN IF columns = <<>>
            THEN Failure("no valid columns found in the first row of dataList")
            ELSE Statement(<<"INSERT INTO ">> \o t.Name \o <<" (">>
                               \o Join(columns, ", ") \o <<") VALUES ">>
                               \o Join(valuePlaceholders, ", ")
                               \o returningClause,
                           args)

FetchOneSQL(t, whereArgs) ==
    LET w == buildWhereClause(whereArgs, 1)
    IN Statement(<<"SELECT * FROM ">> \o t.Name \o w.clause \o <<" LIMIT 1">>,
                 w.args)

FetchManySQL(t, whereArgs) ==
    LET w == buildWhereClause(whereArgs, 1)
    IN Statement(<<"SELECT * FROM ">> \o t.Name \o w.clause, w.args)

FetchAllSQL(t) == Statement(<<"SELECT * FROM ">> \o t.Name, <<>>)

\* Update keeps the SET clause and the WHERE clause it built.
UpdateSQL(t, data, whereArgs) ==
    LET valid == ValidEntries(t, data)
        setParts == [i \in 1..Len(valid) |->
                        QuoteIdentifier(valid[i].key)
                            \o <<" = ", Placeholder(i)>>]
        setArgs == [i \in 1..Len(valid) |-> valid[i].val]
        setClause == Join(setParts, ", ")
        w == buildWhereClause(whereArgs, Len(valid) + 1)
    IN IF data = <<>> THEN Failure("no data to update")
       ELSE IF setParts = <<>>
       THEN Failure("no valid columns provided for update")
       ELSE Statement(<<"UPDATE ">> \o t.Name \o <<" SET ">> \o setClause
                          \o w.clause \o returningClause,
                      setArgs \o w.args)
                @@ [setClause |-> setClause, whereClause |-> w.clause]

DeleteSQL(t, whereArgs) ==
    LET w == buildWhereClause(whereArgs, 1)
    IN Statement(<<"DELETE FROM ">> \o t.Name \o w.clause \o returningClause,
                 w.args)

\* ------------------------------------------------ a statement on its own
\* One of the nine operations is called on a table whose name and columns
\* may hold a double quote, with data of up to two entries and up to
\* MaxWhere where-arguments, and the statement it hands to the driver is kept.
MaxWhere == 2
Names == {<<"users">>, <<"my", Quote, "t">>}
Id == <<"id">>
Odd == <<"a", Quote, "b">>
Unknown == <<"zz">>
SqlTable(name) ==
    [Name |-> name,
     Columns |-> <<[Name |-> Id, DataType |-> "SERIAL"],
                   [Name |-> Odd, DataType |-> "TEXT"]>>]

Datas ==
    {<<>>, <<Entry(Odd, Int32(1))>>, <<Entry(Unknown, Int32(1))>>,
     <<Entry(Odd, Int32(1)), Entry(Id, Int32(2))>>}
\* "id = $1", the raw fragment of Update's example
RawId == Str(<<"id = ", Placeholder(1)>>)
WhereArgs ==
    {MapOf(<<Entry(Id, Int32(5))>>), MapOf(<<Entry(Odd, In(Slice(<<>>)))>>),
     MapOf(<<Entry(Id, Gt(Int32(1))), Entry(Odd, Int32(2))>>),
     RawId, Int32(5)}
WhereLists == UNION {[1..n -> WhereArgs] : n \in 0..MaxWhere}
Operations ==
    {"CreateTable", "DropTable", "Insert", "InsertMany", "FetchOne",
     "FetchMany", "FetchAll", "Update", "Delete"}
TakesData == {"Insert", "InsertMany", "Update"}
TakesWhere == {"FetchOne", "FetchMany", "Update", "Delete"}

StatementInit ==
    /\ \E op \in Operations, name \in Names, data \in Datas, w \in WhereLists :
            sqlIn = [op |-> op, t |-> SqlTable(name),
                     data |-> IF op \in TakesData THEN data ELSE <<>>,
                     whereArgs |-> IF op \in TakesWhere THEN w ELSE <<>>]
    /\ sqlOut = NotBuilt
    /\ mc = <<>> /\ last = <<>> /\ touched = <<>> /\ lastSet = <<>>
    /\ tbl = <<>> /\ db = <<>> /\ cl = <<>> /\ tasks = <<>> /\ ack = <<>>
    /\ script = <<>>
    /\ ConcUnused
    /\ KeyUnused
    /\ PoolUnused

\* The statement the operation builds; InsertMany is given the data twice.
StatementOf(call) ==
    IF call.op = "CreateTable" THEN CreateTableSQL(call.t)
    ELSE IF call.op = "DropTable" THEN DropTableSQL(call.t)
    ELSE IF call.op = "Insert" THEN InsertSQL(call.t, call.data)
    ELSE IF call.op = "InsertMany" THEN InsertManySQL(call.t, <<call.data, call.data>>)
    ELSE IF call.op = "FetchOne" THEN FetchOneSQL(call.t, call.whereArgs)
    ELSE IF call.op = "FetchMany" THEN FetchManySQL(call.t, call.whereArgs)
    ELSE IF call.op = "FetchAll" THEN FetchAllSQL(call.t)
    ELSE IF call.op = "Update" THEN UpdateSQL(call.t, call.data, call.whereArgs)
    ELSE DeleteSQL(call.t, call.whereArgs)

BuildStatement ==
    /\ sqlOut = NotBuilt
    /\ sqlOut' = [built |-> TRUE, out |-> StatementOf(sqlIn)]
    /\ UNCHANGED <<sqlIn, poolVars, cacheVars, tableVars, concVars, keyVars>>

StatementNext == BuildStatement

SpecStatement == StatementInit /\ [][StatementNext]_vars

\* ------------------------------------------- a WHERE clause on its own
\* buildWhereClause is called with map arguments only: one map of one or two
\* entries, or two maps of one entry each, in either order of the keys (Go
\* ranges over a map in no fixed order). An entry holds a plain value or the
\* Condition a constructor returns; *argIndex comes in as any value up to
\* MaxArgs.
WhereCondValues == {NilValue, Int32(1), Slice(<<>>), Slice(<<Int32(1), Int32(2)>>)}
WhereValues ==
    {NilValue, Int32(1)} \cup
    {Construct([fn |-> fn, a |-> a, b |-> b]) :
        fn \in Constructors, a \in WhereCondValues, b \in WhereCondValues}
WhereKeys == {Id, Odd}
MapLists ==
    {<<MapOf(<<Entry(k, v)>>)>> : k \in WhereKeys, v \in WhereValues} \cup
    {<<MapOf(<<Entry(k, v), Entry(IF k = Id THEN Odd ELSE Id, w)>>)>> :
        k \in WhereKeys, v \in WhereValues, w \in WhereValues} \cup
    {<<MapOf(<<Entry(k, v)>>), MapOf(<<Entry(j, w)>>)>> :
        k \in WhereKeys, j \in WhereKeys, v \in WhereValues, w \in WhereValues}

WhereInit ==
    /\ \E w \in MapLists, n \in 1..MaxArgs :
            sqlIn = [whereArgs |-> w, argIndex |-> n]
    /\ sqlOut = NotBuilt
    /\ mc = <<>> /\ last = <<>> /\ touched = <<>> /\ lastSet = <<>>
    /\ tbl = <<>> /\ db = <<>> /\ cl = <<>> /\ tasks = <<>> /\ ack = <<>>
    /\ script = <<>>
    /\ ConcUnused
    /\ KeyUnused
    /\ PoolUnused

\* clause, args := buildWhereClause(whereArgs, &argIndex)
CallBuildWhere ==
    /\ sqlOut = NotBuilt
    /\ sqlOut' = [built |-> TRUE,
                  conditions |->
                      WhereLoop(sqlIn.whereArgs, Where0(sqlIn.argIndex)).conditions,
                  out |-> buildWhereClause(sqlIn.whereArgs, sqlIn.argIndex)]
    /\ UNCHANGED <<sqlIn, poolVars, cacheVars, tableVars, concVars, keyVars>>

WhereNext == CallBuildWhere

SpecWhere == WhereInit /\ [][WhereNext]_vars

\* ================================================================ claims
CacheCall == last.op \in {"Set", "Get", "Delete", "Clear"}

\* C1 as stated: after every Set, Get, Delete or Clear the number of entries
\* held is at most the configured capacity N, for any N.
C1_SizeAtMostAnyCapacity ==
    CacheCall => /\ Len(mc.evictList) <= mc.maxSize
                 /\ Cardinality(Held(mc)) <= mc.maxSize

\* C1 amended: for a cache created with a positive capacity N, the number of
\* entries held is at most N after every call (a capacity of 0 or less
\* switches eviction off).
C1_SizeAtMostPositiveCapacity ==
    mc.maxSize > 0 => /\ Len(mc.evictList) <= mc.maxSize
                      /\ Cardinality(Held(mc)) <= mc.maxSize

C1_Witness ==
    /\ mc.maxSize = MaxCap
    /\ last.op = "Set" /\ last.fresh /\ last.evicted # {}
    /\ Len(mc.evictList) = mc.maxSize

\* C2: a Set of a new key that pushes the cache over its capacity evicts
\* exactly one entry, the one whose last touch (Set, or Get hit) is oldest.
C2_EvictsLeastRecentlyTouched ==
    [][(/\ last'.op = "Set" /\ last'.fresh
        /\ mc.maxSize > 0
        /\ Cardinality(Held(mc)) + 1 > mc.maxSize)
       => (Held(mc) \cup {last'.key}) \ Held(mc')
              = {Head(touched \o <<last'.key>>)}]_vars

C2_Witness ==
    /\ last.op = "Set" /\ last.fresh
    /\ Cardinality(last.evicted) = 1
    /\ Len(touched) = 2 /\ mc.maxSize = 2
    \* the entry that stayed was set before the evicted one and kept by a Get
    /\ \E k \in Held(mc) \ {last.key} : mc.evictList[2].Key = k

\* C3: Get never returns found = TRUE for an entry whose expiration (the time
\* of its last Set plus the ttl) lies strictly before the time of the Get.
C3_NoHitAfterExpiration ==
    (last.op = "Get" /\ last.found)
        => lastSet[last.key].set /\ lastSet[last.key].left >= 0

C3_Witness == last.op = "Get" /\ last.purged /\ ~last.found

\* C4: a Get of k strictly before the ttl of the last Set(k, v, ttl) has passed,
\* with k neither deleted, cleared, evicted nor set again since, returns
\* (v, TRUE).
C4_HitBeforeExpiration ==
    (last.op = "Get" /\ lastSet[last.key].set /\ lastSet[last.key].left > 0)
        => last.found /\ last.value = lastSet[last.key].value

C4_Witness ==
    /\ last.op = "Get" /\ last.found
    /\ lastSet[last.key].set /\ lastSet[last.key].left = 1
    /\ last.value = "v2"
    /\ Len(mc.evictList) = 2

\* C5: the keys of the index and the keys of the recency list are the same
\* set, of the same size, and no key is listed twice.
C5_IndexMatchesList ==
    /\ Held(mc) = Listed(mc)
    /\ Cardinality(Held(mc)) = Len(mc.evictList)
    /\ \A k \in Held(mc) : mc.items[k] = k

C5_Witness ==
    /\ last.op = "Get" /\ last.purged
    /\ Len(mc.evictList) = 2

\* C6: Set, Get, Delete and Clear run under one exclusive lock each: at most
\* one thread is inside a call and it holds the write lock; a thread entering
\* a call, and the cache whenever no thread is inside, has an index and a
\* recency list that agree; and a call ends with the cache and the result it
\* would have if it ran alone from the moment it took the lock.
C6_CallsAreSerialized ==
    /\ Cardinality({t \in Threads : InsideLock(t)}) <= 1
    /\ \A t \in Threads : InsideLock(t) => mu.w = t
    /\ (\A t \in Threads : ~InsideLock(t)) => Coherent(mc)
    /\ \A t \in Threads : th[t].pc \in EntryPcs => Coherent(mc)
    /\ \A t \in Threads :
          th[t].pc = "unlock" => mc = expect[t].c /\ th[t].ret = expect[t].ret

C6_Witness ==
    \E t, u \in Threads :
        /\ t # u
        /\ InsideLock(t) /\ ~Coherent(mc)
        /\ th[u].pc = "lock" /\ th[u].op = "Get"

\* The cache holds, for the row id, an unexpired entry whose content was
\* overwritten or deleted by a write whose call has returned.
StaleServable(id) ==
    LET e == mc.items[ToString(id)]
        item == ItemOf(mc.evictList, e)
    IN /\ e # Nil
       /\ ~Expired(item)
       /\ \/ ack[id].del
          \/ Unmarshal(item.Value).age.v < ack[id].age

FetchOneReturned(c) == cl[c].pc = "idle" /\ cl[c].op = "FetchOne"

\* C7: after an Update or Delete of a row has returned, the cache does not
\* keep serving a pre-write copy of the row forever: again and again there is
\* a moment at which no such copy can be served, whatever the detached
\* populate tasks do.
C7_NeverPermanentlyStale == \A id \in RowIds : []<>~StaleServable(id)

C7_Witness ==
    /\ \E id \in RowIds : StaleServable(id) /\ ~ack[id].del
    /\ tasks = EmptyBag
    /\ \A c \in Clients : cl[c].pc = "idle"

\* C8: a FetchOne that starts after an Update of its row has returned never
\* returns content older than that Update wrote.
C8_NoPreUpdateRowAfterUpdate ==
    \A c \in Clients :
        (FetchOneReturned(c) /\ cl[c].res.kind = "row")
            => cl[c].res.row.age.v >= cl[c].floor.age

C8_Witness ==
    \E c \in Clients :
        /\ FetchOneReturned(c) /\ cl[c].res.kind = "row" /\ cl[c].res.hit
        /\ cl[c].floor.age = InitialAge + 1
        /\ cl[c].res.row.age.v = InitialAge

\* C9: a FetchOne that starts after a Delete of its row has returned fails
\* with "no rows found".
C9_NoRowAfterDelete ==
    \A c \in Clients :
        (FetchOneReturned(c) /\ cl[c].floor.del)
            => cl[c].res = ErrorResult("no rows found")

C9_Witness ==
    \E c \in Clients :
        /\ FetchOneReturned(c) /\ cl[c].floor.del
        /\ cl[c].res.kind = "row" /\ cl[c].res.hit

ScenarioDone == Scripted /\ script.todo = <<>> /\ cl[Scenarist].pc = "idle"

\* C10: in the scenario Insert, FetchOne, FetchOne, Update to age 26,
\* FetchOne, the three reads are a miss, a hit and a miss, and the last read
\* returns age 26.
C10_MissHitMissAndAge26 ==
    ScenarioDone =>
        /\ ~script.done[2].hit
        /\ script.done[3].hit
        /\ ~script.done[5].hit
        /\ script.done[5].row.age.v = InitialAge + 1

\* The last read of the scenario is a hit on the row as it was before the
\* Update.
C10_Witness ==
    /\ ScenarioDone
    /\ script.done[5].hit
    /\ script.done[5].row.age.v = InitialAge

\* A FetchOne call of client c starts in this step.
FetchOneStarts(c) ==
    cl[c].pc = "idle" /\ cl'[c] # cl[c] /\ cl'[c].op = "FetchOne"
\* The filter resolves to a key whose entry Get would return.
WouldHit(whereArgs) ==
    LET k == getCacheKey(tbl, whereArgs)
    IN /\ k.ok
       /\ mc.items[k.key] # Nil
       /\ ~Expired(ItemOf(mc.evictList, mc.items[k.key]))
CachedRow(c, key) == Unmarshal(ItemOf(c.evictList, c.items[key]).Value)

\* C11: a FetchOne whose filter resolves to a key that Get hits returns the
\* cached row in that step, without reaching the data-store query; any other
\* FetchOne goes on to the query, and when the query gave a row the call
\* returns it only with the cache holding that row under the key resolved
\* from the row itself.
C11_HitBypassesStoreMissPopulates ==
    [][\A c \in Clients :
         /\ FetchOneStarts(c) /\ WouldHit(cl'[c].args) =>
               /\ cl'[c].pc = "idle"
               /\ cl'[c].res =
                     RowResult(CachedRow(mc, getCacheKey(tbl, cl'[c].args).key),
                               TRUE)
               /\ db' = db
         /\ FetchOneStarts(c) /\ ~WouldHit(cl'[c].args) =>
               cl'[c].pc = "fo_query"
         /\ cl[c].pc = "fo_query" /\ cl'[c].pc = "idle" =>
               cl'[c].res.kind = "error"
         /\ cl[c].pc = "fo_set" /\ cl'[c] # cl[c] =>
               LET result == cl[c].rows[1]
                   key == Sprint(result[tbl.CacheKey])
               IN /\ cl'[c].pc = "idle"
                  /\ cl'[c].res = RowResult(result, FALSE)
                  /\ mc'.items[key] # Nil
                  /\ ItemOf(mc'.evictList, mc'.items[key]).Value
                        = Marshal(result)]_vars

\* A FetchOne filtered on age alone has returned the row from the data store
\* and the cache holds it under the row's id.
C11_Witness ==
    \E c \in Clients :
        /\ FetchOneReturned(c)
        /\ cl[c].args = ByAge(InitialAge)
        /\ cl[c].res.kind = "row" /\ ~cl[c].res.hit
        /\ mc.items[Sprint(cl[c].res.row.id)] # Nil
        /\ CachedRow(mc, Sprint(cl[c].res.row.id)) = Unmarshal(Marshal(cl[c].res.row))

\* C12: in the scenario, where no write comes between the first and the
\* second FetchOne of Alice's row, the second read is a hit and returns the
\* same row content as the first.
C12_SecondReadIdentical ==
    Scripted /\ Len(script.done) >= 3 =>
        /\ script.done[3].hit
        /\ script.done[3].row = script.done[2].row

\* The first read came from the data store with age as an integer, the
\* second from the cache with age as a float64.
C12_Witness ==
    /\ Scripted /\ Len(script.done) >= 3
    /\ ~script.done[2].hit /\ script.done[3].hit
    /\ script.done[2].row.age = Int32(InitialAge)
    /\ script.done[3].row.age = Float64(InitialAge)

\* A FetchMany call of client c starts, and returns, in this step.
FetchManyStep(c) ==
    cl[c].pc = "idle" /\ cl'[c] # cl[c] /\ cl'[c].op = "FetchMany"

\* C13: a FetchMany that the data store answers returns exactly the rows the
\* data store holds at that moment, whatever the cache holds, and does not
\* touch the cache itself; a FetchMany the data store refuses returns an
\* error, never rows from the cache.
C13_FetchManyReadsStore ==
    [][\A c \in Clients :
         FetchManyStep(c) =>
             /\ mc' = mc
             /\ cl'[c].fault = "none" =>
                   cl'[c].res = RowsResult(Select(db, <<>>))
             /\ Refused(cl'[c].fault) => cl'[c].res.kind = "error"]_vars

\* A FetchMany has returned the row as the data store holds it while the
\* cache holds another version of that row.
C13_Witness ==
    \E c \in Clients, i \in RowIds :
        /\ cl[c].pc = "idle" /\ cl[c].op = "FetchMany"
        /\ cl[c].fault = "none"
        /\ cl[c].res = RowsResult(<<RowOf(db, i)>>)
        /\ mc.items[ToString(i)] # Nil
        /\ CachedRow(mc, ToString(i)).age.v # db[i].age

\* An Insert call of client c starts, and returns, in this step.
InsertStep(c) ==
    cl[c].pc = "idle" /\ cl'[c] # cl[c] /\ cl'[c].op = "Insert"
\* The detached goroutine holding this task runs in this step.
TaskRuns(task) == CopiesIn(task, tasks') < CopiesIn(task, tasks)
\* The entries other than key that the step removed.
LostBut(key) == {k \in Held(mc) \ {key} : mc'.items[k] = Nil}

\* C14: an Insert call leaves the cache as it is and, when it succeeds,
\* starts one detached task holding the inserted row; when that task runs it
\* sets the row under the key of its id with the table's ttl, adds no other
\* entry, and every other entry keeps its value and expiration, except that
\* one of them is evicted when the cache is at its capacity.
C14_InsertOnlySetsItsRow ==
    [][/\ \A c \in Clients :
            InsertStep(c) =>
                /\ mc' = mc
                /\ tasks' = IF cl'[c].res.kind = "row"
                            THEN tasks (+) SetToBag({Task("set", <<cl'[c].res.row>>)})
                            ELSE tasks
       /\ \A task \in BagToSet(tasks) :
            TaskRuns(task) /\ task.kind = "set" =>
                LET row == task.rows[1]
                    key == Sprint(row[tbl.CacheKey])
                IN /\ Held(mc') \subseteq Held(mc) \cup {key}
                   /\ ItemOf(mc'.evictList, mc'.items[key]) =
                         [Key |-> key, Value |-> Marshal(row),
                          Expiration |-> Now + tbl.CacheTTL]
                   /\ \A k \in Held(mc') \ {key} :
                         ItemOf(mc'.evictList, mc'.items[k])
                           = ItemOf(mc.evictList, mc.items[k])
                   /\ Cardinality(LostBut(key)) <= 1
                   /\ LostBut(key) # {} =>
                         /\ key \notin Held(mc)
                         /\ Cardinality(Held(mc)) = tbl.CacheMax]_vars

\* The second Insert's task has run on a cache of capacity one: it holds the
\* second row alone, the first having been evicted.
C14_Witness ==
    /\ tbl.CacheMax = SmallCacheMax
    /\ \E c \in Clients :
          /\ cl[c].pc = "idle" /\ cl[c].op = "Insert"
          /\ cl[c].res.kind = "row" /\ cl[c].res.row.id = Int32(SmallCacheMax + 1)
    /\ tasks = EmptyBag
    /\ Held(mc) = {ToString(SmallCacheMax + 1)}

\* The filter resolves to a key whose unexpired entry does not decode.
WouldFailDecode(whereArgs) ==
    LET k == getCacheKey(tbl, whereArgs)
    IN /\ k.ok
       /\ mc.items[k.key] # Nil
       /\ ~Expired(ItemOf(mc.evictList, mc.items[k.key]))
       /\ ~Decodable(ItemOf(mc.evictList, mc.items[k.key]).Value)

\* C15: a FetchOne whose filter gives no key, or whose cached entry does not
\* decode, goes on to the data-store query; a query that the data store
\* answers with a row makes the call return that row without error, whether
\* or not a key resolves from the row and whether or not the row can be
\* encoded, and a row that cannot be encoded leaves the cache as it was.
C15_CacheFailuresNeverFailFetchOne ==
    [][\A c \in Clients :
         /\ FetchOneStarts(c)
               /\ (~getCacheKey(tbl, cl'[c].args).ok \/ WouldFailDecode(cl'[c].args))
               => cl'[c].pc = "fo_query"
         /\ cl[c].pc = "fo_query" /\ cl'[c] # cl[c] /\ cl'[c].fault = "none"
               /\ Select(db, cl[c].args) # <<>>
               => /\ cl'[c].pc = "fo_set"
                  /\ cl'[c].rows = <<Head(Select(db, cl[c].args))>>
         /\ cl[c].pc = "fo_set" /\ cl'[c] # cl[c] =>
               /\ cl'[c].pc = "idle"
               /\ cl'[c].res = RowResult(cl[c].rows[1], FALSE)
               /\ ~Marshalable(cl[c].rows[1]) => mc' = mc]_vars

\* A FetchOne by id has returned from the data store a row that cannot be
\* encoded, past a cached entry for its key that cannot be decoded, which is
\* still there.
C15_Witness ==
    \E c \in Clients, i \in RowIds :
        /\ FetchOneReturned(c)
        /\ cl[c].args = ById(i)
        /\ cl[c].res = RowResult(RowOf(db, i), FALSE)
        /\ ~Marshalable(cl[c].res.row)
        /\ mc.items[ToString(i)] # Nil
        /\ ~Decodable(ItemOf(mc.evictList, mc.items[ToString(i)]).Value)

\* Client c takes a step of a write call during which the data store fails.
FailedWriteStep(c) ==
    /\ cl'[c] # cl[c]
    /\ cl'[c].op \in {"Insert", "Update", "Delete"}
    /\ cl'[c].fault # "none"

\* C16: every step of an Insert, Update or Delete whose connection or
\* statement fails ends the call with an error, leaves the cache as it was
\* and starts no detached task.
C16_FailedWriteLeavesCache ==
    [][\A c \in Clients :
         FailedWriteStep(c) =>
             /\ cl'[c].pc = "idle"
             /\ cl'[c].res.kind = "error"
             /\ mc' = mc
             /\ tasks' = tasks]_vars

\* An Update whose statement failed while it ran has returned no rows and no
\* error, the row it named is as it was, and the cache, cleared by the call,
\* holds nothing.
C16_Witness ==
    \E c \in Clients, i \in RowIds :
        /\ cl[c].pc = "idle" /\ cl[c].op = "Update"
        /\ cl[c].args = ById(i)
        /\ cl[c].fault = "rows"
        /\ cl[c].res = RowsResult(<<>>)
        /\ db[i] = [st |-> "live", age |-> InitialAge]
        /\ Held(mc) = {}

\* getCacheKey has been called on keyArgs.
KeyCalled == keyOut # NotCalled
MapsWith(whereArgs, col) ==
    {i \in 1..Len(whereArgs) :
        whereArgs[i].t = "map" /\ col \in DOMAIN whereArgs[i].m}
Least(S) == CHOOSE i \in S : \A j \in S : i <= j
\* The arguments that are not maps, in order: the key/value pairs.
Scalars(whereArgs) == SelectSeq(whereArgs, LAMBDA a : a.t # "map")
PairsWith(sc, col) ==
    {j \in 1..(Len(sc) - 1) : j % 2 = 1 /\ sc[j] = Str(col)}
\* The value of the first map that has the column, else the value paired
\* with the column among the key/value pairs.
KeyByMapsThenPairs(whereArgs, col) ==
    LET sc == Scalars(whereArgs)
    IN IF MapsWith(whereArgs, col) # {}
       THEN KeyFound(whereArgs[Least(MapsWith(whereArgs, col))].m[col])
       ELSE IF PairsWith(sc, col) # {}
       THEN KeyFound(sc[Least(PairsWith(sc, col)) + 1])
       ELSE KeyError("CacheKey '" \o col \o "' not found in whereArgs")

\* C17: on a cached table with a CacheKey, getCacheKey of any list of maps
\* and key/value pairs is the CacheKey value of the first map that has it,
\* else the value paired with the CacheKey among the key/value pairs.
C17_MapsThenPairs ==
    KeyCalled /\ tbl.Cached /\ tbl.CacheKey # "" =>
        keyOut = KeyByMapsThenPairs(keyArgs, tbl.CacheKey)

\* getCacheKey found no key in a map without the CacheKey followed by the
\* pair ("id", 5).
C17_Witness ==
    /\ KeyCalled /\ tbl = T
    /\ keyArgs = <<MapArg([name |-> Str("n")]), Str("id"), Int32(5)>>
    /\ ~keyOut.ok

\* An argument supplies the column: a map has it, or it stands at an even
\* position (counted from 0) with a value after it.
Supplies(whereArgs, col) ==
    \/ MapsWith(whereArgs, col) # {}
    \/ \E i \in 1..(Len(whereArgs) - 1) : i % 2 = 1 /\ whereArgs[i] = Str(col)

\* C18: getCacheKey fails with "caching is not enabled" on a table that is
\* not cached, else with "CacheKey is not defined" when CacheKey is empty,
\* else with "not found" when no argument supplies the CacheKey; whenever it
\* fails it returns the empty key, and the cache is as it was constructed.
C18_FailuresInOrder ==
    KeyCalled =>
        /\ ~tbl.Cached =>
              keyOut.err = "caching is not enabled for this table"
        /\ tbl.Cached /\ tbl.CacheKey = "" =>
              keyOut.err = "CacheKey is not defined for this table"
        /\ tbl.Cached /\ tbl.CacheKey # "" /\ ~Supplies(keyArgs, tbl.CacheKey) =>
              keyOut.err = "CacheKey '" \o tbl.CacheKey \o "' not found in whereArgs"
        /\ keyOut.err # "nil" => ~keyOut.ok /\ keyOut.key = ""
        /\ mc = NewMemoryCache(tbl.CacheMax)

\* getCacheKey was called with a map holding id on a table that is neither
\* cached nor has a CacheKey, and reported that caching is not enabled.
C18_Witness ==
    /\ KeyCalled
    /\ ~tbl.Cached /\ tbl.CacheKey = ""
    /\ keyArgs = <<MapArg([id |-> Int32(5)])>>
    /\ keyOut = KeyError("caching is not enabled for this table")

\* The row the data store returns for the id x: pgx gives an integer column
\* as a Go integer.
StoredRow(x) == [id |-> Int32(x.v)]

\* C19: for every value x, the map {CacheKey: x} and the pair (CacheKey, x)
\* resolve to the same key, and that key is the one under which the row of
\* the data store whose CacheKey column equals x is cached.
C19_ShapesAgreeWithStoredKey ==
    /\ KeyCalled /\ tbl = T
    /\ Len(keyArgs) = 1 /\ keyArgs[1].t = "map"
    /\ tbl.CacheKey \in DOMAIN keyArgs[1].m
    => LET x == keyArgs[1].m[tbl.CacheKey]
       IN /\ keyOut.ok
          /\ keyOut = getCacheKey(tbl, <<Str(tbl.CacheKey), x>>)
          /\ keyOut.key = getCacheKey(tbl, <<MapArg(StoredRow(x))>>).key

\* The filter {id: float64(1000000)} resolved to "1e+06", while the row with
\* id 1000000 is cached under "1000000".
C19_Witness ==
    /\ KeyCalled /\ tbl = T
    /\ keyArgs = <<MapArg([id |-> Float64(BigId)])>>
    /\ keyOut.key = "1e+06"
    /\ getCacheKey(tbl, <<MapArg(StoredRow(Float64(BigId)))>>).key = "1000000"

\* C20: on a cached table whose CacheKey is empty the cache never holds an
\* entry, no call returns a row as a cache hit, and every FetchOne goes on
\* to the data-store query.
C20_NoKeyNoEntries ==
    /\ [](/\ Held(mc) = {}
          /\ mc.evictList = <<>>
          /\ \A c \in Clients : cl[c].res.kind = "row" => ~cl[c].res.hit)
    /\ [][\A c \in Clients :
            FetchOneStarts(c) => cl'[c].pc = "fo_query"]_vars

\* After an Insert and a FetchMany whose goroutines have run, a FetchOne by
\* id has returned the row from the data store and the cache is empty.
C20_Witness ==
    /\ tbl.CacheKey = ""
    /\ tasks = EmptyBag
    /\ Held(mc) = {}
    /\ \E c, d \in Clients :
          /\ cl[d].pc = "idle" /\ cl[d].op = "FetchMany"
          /\ cl[d].res.kind = "rows" /\ Len(cl[d].res.rows) = 1
          /\ FetchOneReturned(c)
          /\ cl[c].args = ById(1)
          /\ cl[c].res = RowResult(RowOf(db, 1), FALSE)

\* The entries of a list other than the one of a key, in list order.
OthersOf(l, key) == SelectSeq(l, LAMBDA item : item.Key # key)

\* A call of Set on a key the cache holds.
SetOnPresent == last'.op = "Set" /\ mc.items[last'.key] # Nil

\* C30: Set on a key that is already present replaces its value and its
\* expiration, makes the entry the most recently used one (the front of the
\* list), keeps the number of entries and every other entry (and their
\* order) as they were, and evicts nothing.
C30_SetPresentOnlyRewrites ==
    [][SetOnPresent =>
         LET key == last'.key
         IN /\ mc'.evictList[1] =
                   [Key |-> key, Value |-> lastSet'[key].value,
                    Expiration |-> Now + lastSet'[key].left]
            /\ Len(mc'.evictList) = Len(mc.evictList)
            /\ OthersOf(mc'.evictList, key) = OthersOf(mc.evictList, key)
            /\ mc'.items = mc.items
            /\ last'.evicted = {}]_vars

\* A Set on a present key of a full cache has moved it from the back to the
\* front, with a new value.
C30_Witness ==
    /\ last.op = "Set" /\ ~last.fresh
    /\ mc.maxSize = MaxCap /\ Len(mc.evictList) = MaxCap
    /\ mc.evictList[1].Key = last.key
    /\ touched = <<mc.evictList[2].Key, last.key>>
    /\ mc.evictList[1].Expiration > mc.evictList[2].Expiration

\* The calls x, y, z of a log are Sets of three different keys.
ThreeSets(x, y, z) ==
    /\ x.op = "Set" /\ y.op = "Set" /\ z.op = "Set"
    /\ Cardinality({x.key, y.key, z.key}) = 3

\* C22: on a cache of capacity 2, Set(a), Set(b), Set(c) evicts a; when
\* Get(a) is called between Set(b) and Set(c) and finds a, Set(c) evicts b
\* and a remains.
C22_EvictsLeastRecentlyUsed ==
    mc.maxSize = 2 =>
        /\ (Len(script) = 3 /\ ThreeSets(script[1], script[2], script[3])) =>
               /\ script[3].gone = {script[1].key}
               /\ Held(mc) = {script[2].key, script[3].key}
        /\ (/\ Len(script) = 4
            /\ ThreeSets(script[1], script[2], script[4])
            /\ script[3] = GetCall(script[1].key, TRUE)) =>
               /\ script[4].gone = {script[2].key}
               /\ Held(mc) = {script[1].key, script[4].key}

\* Set(a), Set(b), Get(a), Set(c) were called on a cache of capacity 2, and
\* a is still held while b is gone.
C22_Witness ==
    /\ mc.maxSize = 2
    /\ Len(script) = 4
    /\ <<script[1].key, script[2].key, script[3].key, script[4].key>> =
           <<"a", "b", "a", "c">>
    /\ ThreeSets(script[1], script[2], script[4])
    /\ script[3] = GetCall("a", TRUE)
    /\ script[4].gone = {"b"}
    /\ Held(mc) = {"a", "c"}

\* The call that a step appends to the log.
Appended == script'[Len(script')]
EnableStep == Len(script') = Len(script) + 1 /\ Appended.op = "EnableCache"
\* The step is a second EnableCache(ttl) in a row.
EnableAgain ==
    /\ EnableStep
    /\ Len(script) > 0
    /\ script[Len(script)] = Appended

\* C21: EnableCache sets the flag and the ttl, makes an unset (0) CacheMax
\* 1000 and keeps any other CacheMax, and a second EnableCache(ttl) in a row
\* leaves the table (flag, ttl, CacheMax, cache contents) as the first left it.
C21_EnableCacheIdempotent ==
    [][/\ EnableStep =>
            /\ tbl'.Cached /\ tbl'.CacheTTL = Appended.ttl
            /\ tbl'.CacheMax = IF tbl.CacheMax = 0 THEN 1000 ELSE tbl.CacheMax
       /\ EnableAgain => tbl' = tbl /\ mc' = mc]_vars

\* EnableCache was called twice in a row on a table declared without a
\* CacheMax that had been enabled and had cached a row before.
C21_Witness ==
    /\ Len(script) = 4
    /\ script[1].op = "EnableCache" /\ script[2].op = "setCache"
    /\ script[3].op = "EnableCache" /\ script[4] = script[3]
    /\ script[3].ttl # script[1].ttl
    /\ tbl.CacheMax = 1000 /\ tbl.CacheTTL = script[4].ttl
    /\ mc = NewMemoryCache(1000)

\* A step in which an Update or a Delete of c returns rows (no error).
WriteReturns(c) ==
    /\ cl'[c] # cl[c]
    /\ cl'[c].pc = "idle"
    /\ cl'[c].op \in {"Update", "Delete"}
    /\ cl'[c].res.kind = "rows"

\* C27: the step in which an Update or a Delete returns its rows leaves the
\* cache without any entry, whatever keys it held and however many rows
\* (zero included) the statement affected.
C27_WriteClearsWholeCache ==
    [][\A c \in Clients :
         WriteReturns(c) => mc'.evictList = <<>> /\ Held(mc') = {}]_vars

\* The caller saw a cached row after an Insert, then made an Update that
\* affected no row and failed nowhere, and saw an empty cache.
C27_Witness ==
    \E n \in 1..(Len(touched) - 1) :
        /\ touched[n].op = "Insert" /\ touched[n].cache # <<>>
        /\ touched[n + 1].op = "Update" /\ touched[n + 1].fault = "none"
        /\ touched[n + 1].res = RowsResult(<<>>)
        /\ touched[n + 1].cache = <<>>

\* The entry is the cached form of one of the rows.
EntryOfOneOf(item, rows) ==
    \E n \in 1..Len(rows) :
        /\ item.Key = ToString(IdOf(rows[n]))
        /\ item.Value = Marshal(rows[n])

\* C28: after an Update that ran alone has returned and its detached task
\* has finished, every entry of the cache is the post-update version of a
\* row the Update returned (the cache may also be empty).
C28_LoneUpdateLeavesOnlyNewRows ==
    \A n \in 1..Len(touched) :
        (touched[n].op = "Update" /\ touched[n].res.kind = "rows") =>
            \A m \in 1..Len(touched[n].cache) :
                EntryOfOneOf(touched[n].cache[m], touched[n].res.rows)

\* Of two Updates that changed a row each, one left the cache empty and the
\* other left the row it had changed.
C28_Witness ==
    \E n \in 1..Len(touched), m \in 2..Len(touched) :
        /\ touched[n].op = "Update" /\ touched[m].op = "Update"
        /\ touched[n].res.kind = "rows" /\ touched[m].res.kind = "rows"
        /\ touched[n].res.rows # <<>> /\ touched[m].res.rows # <<>>
        /\ touched[n].cache = <<>>
        /\ touched[m].cache # <<>>
        /\ touched[m - 1].cache # <<>>

\* A populate task still has the row id to do; the cache holds an entry
\* under the key of the row id.
Pending(id) ==
    \E task \in BagToSet(tasks) : task.kind = "set" /\ id \in IdsOf(task.rows)
Cached(id) == mc.items[ToString(id)] # Nil

\* A step in which a FetchMany of c returns rows.
FetchManyReturns(c) ==
    /\ cl'[c] # cl[c]
    /\ cl'[c].op = "FetchMany"
    /\ cl'[c].res.kind = "rows"

\* C29: FetchMany returns without touching the cache, each row it returns
\* being left to a detached task; under fair scheduling every row left to a
\* populate task is eventually Set into the cache.
C29_FetchManyRowsEventuallySet ==
    /\ [][\A c \in Clients :
            FetchManyReturns(c) =>
                /\ mc' = mc
                /\ \A id \in IdsOf(cl'[c].res.rows) : Pending(id)']_vars
    /\ \A id \in InsertIds : (Pending(id) /\ ~Cached(id)) ~> Cached(id)

\* FetchMany has returned two rows, a task is about to Set them, and the
\* cache holds nothing.
C29_Witness ==
    \E c \in Clients :
        /\ cl[c].op = "FetchMany" /\ cl[c].pc = "idle"
        /\ cl[c].res.kind = "rows" /\ Len(cl[c].res.rows) = 2
        /\ BagIn(Task("set", cl[c].res.rows), tasks)
        /\ mc.evictList = <<>>

\* ToSQL has been called on what In(a) returned.
InBuilt == sqlOut # NotBuilt /\ sqlIn.fn = "In"
\* The text has a list between brackets with nothing in it.
EmptyList(sql) ==
    \E i \in 1..(Len(sql) - 1) : sql[i] = " IN (" /\ sql[i + 1] = ")"

\* C23: ToSQL on In of an empty slice returns the fragment 1=0, which no row
\* satisfies, with no argument and *argIndex as it was; no In of any value
\* yields a list IN () with nothing in it.
C23_EmptyInIsAlwaysFalse ==
    InBuilt =>
        /\ EmptySlice(sqlIn.a) =>
               /\ Text(sqlOut.out.sql) = "1=0"
               /\ sqlOut.out.args = <<>>
               /\ sqlOut.out.argIndex = sqlIn.argIndex
        /\ ~EmptyList(sqlOut.out.sql)

\* ToSQL was called on In of an empty slice with *argIndex beyond 1.
C23_Witness ==
    /\ InBuilt
    /\ sqlIn.a = Slice(<<>>)
    /\ sqlIn.argIndex > 1
    /\ sqlOut.out = Fragment(<<"1=0">>, <<>>, sqlIn.argIndex)

\* ToSQL has been called on what Between(a, b) returned.
BetweenBuilt == sqlOut # NotBuilt /\ sqlIn.fn = "Between"

\* C24: for every x that is not nil, Between(nil, x) is the condition Lte(x)
\* and Between(x, nil) the condition Gte(x), and ToSQL gives them the same
\* fragment, the same arguments and the same advance of *argIndex.
C24_OpenBetweenIsLteOrGte ==
    BetweenBuilt =>
        /\ (sqlIn.a = NilValue /\ sqlIn.b # NilValue) =>
               /\ sqlOut.cond = Lte(sqlIn.b)
               /\ sqlOut.out = ToSQL(Lte(sqlIn.b), sqlIn.col, sqlIn.argIndex)
               /\ Text(sqlOut.out.sql) =
                      Text(sqlIn.col) \o " <= $" \o ToString(sqlIn.argIndex)
               /\ sqlOut.out.args = <<sqlIn.b>>
               /\ sqlOut.out.argIndex = sqlIn.argIndex + 1
        /\ (sqlIn.b = NilValue /\ sqlIn.a # NilValue) =>
               /\ sqlOut.cond = Gte(sqlIn.a)
               /\ sqlOut.out = ToSQL(Gte(sqlIn.a), sqlIn.col, sqlIn.argIndex)
               /\ Text(sqlOut.out.sql) =
                      Text(sqlIn.col) \o " >= $" \o ToString(sqlIn.argIndex)
               /\ sqlOut.out.args = <<sqlIn.a>>
               /\ sqlOut.out.argIndex = sqlIn.argIndex + 1

\* ToSQL was called on Between(nil, 2) for a column whose name holds a quote.
C24_Witness ==
    /\ BetweenBuilt
    /\ sqlIn.a = NilValue /\ sqlIn.b = Int32(2)
    /\ sqlIn.col = <<Quote, "a", Quote, Quote, "b", Quote>>
    /\ sqlOut.out.sql = sqlIn.col \o <<" <= ", Placeholder(sqlIn.argIndex)>>

\* The numbers n whose placeholder $n stands in the text.
PlaceholdersIn(sql) ==
    {n \in 1..Len(sql) : \E i \in 1..Len(sql) : sql[i] = Placeholder(n)}

\* Update(data, "id = $1", 5) has built its statement.
DocumentedUpdate ==
    /\ sqlOut # NotBuilt
    /\ sqlIn.op = "Update"
    /\ sqlIn.whereArgs = <<RawId, Int32(5)>>
    /\ sqlOut.out.ok

\* C25: in the statement of Update(data, "id = $1", 5) no placeholder of the
\* SET clause is a placeholder of the WHERE clause, every placeholder of the
\* WHERE clause is bound to 5 and the placeholders of the SET clause to the
\* values of data, one argument for each placeholder.
C25_PlaceholdersBoundAsIntended ==
    DocumentedUpdate =>
        LET out == sqlOut.out
            valid == ValidEntries(sqlIn.t, sqlIn.data)
            inSet == PlaceholdersIn(out.setClause)
            inWhere == PlaceholdersIn(out.whereClause)
        IN /\ inSet \cap inWhere = {}
           /\ Len(out.args) = Cardinality(inSet \cup inWhere)
           /\ \A n \in inWhere : out.args[n] = Int32(5)
           /\ \A n \in inSet : out.args[n] = valid[n].val

\* The statement is UPDATE users SET "a""b" = $1 WHERE id = $1 RETURNING *
\* with the arguments 1 and 5: $1 is the new value, and 5 has no placeholder.
C25_Witness ==
    /\ DocumentedUpdate
    /\ Text(sqlOut.out.sql) =
           "UPDATE users SET \"a\"\"b\" = $1 WHERE id = $1 RETURNING *"
    /\ sqlOut.out.args = <<Int32(1), Int32(5)>>

\* The pieces of seq stand in the text from position i on.
Occurs(sql, seq, i) ==
    /\ i >= 1
    /\ i + Len(seq) - 1 <= Len(sql)
    /\ SubSeq(sql, i, i + Len(seq) - 1) = seq
\* The identifier stands in the text in its quoted form.
QuotedIn(sql, ident) ==
    \E i \in 1..Len(sql) : Occurs(sql, QuoteIdentifier(ident), i)
\* The identifier stands in the text as it is, outside of its quoted form.
Unquoted(sql, ident) ==
    \E i \in 1..Len(sql) :
        /\ Occurs(sql, ident, i)
        /\ ~(ReplaceAll(ident) = ident /\ Occurs(sql, QuoteIdentifier(ident), i - 1))

\* The column names a call hands over: the keys of its data and of the maps
\* among its where-arguments that are columns of the table, and for
\* CreateTable the columns of the table.
ColumnsOf(call) ==
    {call.data[i].key : i \in 1..Len(call.data)}
        \cup UNION {{call.whereArgs[i].pairs[j].key :
                        j \in 1..Len(call.whereArgs[i].pairs)} :
                    i \in {k \in 1..Len(call.whereArgs) :
                              call.whereArgs[k].t = "map"}}
        \cup (IF call.op = "CreateTable"
              THEN {call.t.Columns[i].Name : i \in 1..Len(call.t.Columns)}
              ELSE {})

StatementBuilt == sqlOut # NotBuilt /\ sqlOut.out.ok

\* C26: the statement of each of the nine operations holds the table name in
\* its quoted form, and neither the table name nor a column name stands in
\* it unquoted.
C26_EveryIdentifierQuoted ==
    StatementBuilt =>
        /\ QuotedIn(sqlOut.out.sql, sqlIn.t.Name)
        /\ \A ident \in {sqlIn.t.Name} \cup ColumnsOf(sqlIn) :
               ~Unquoted(sqlOut.out.sql, ident)

\* FetchAll on the table named my"t has built SELECT * FROM my"t.
C26_Witness ==
    /\ StatementBuilt
    /\ sqlIn.op = "FetchAll"
    /\ sqlIn.t.Name = <<"my", Quote, "t">>
    /\ Text(sqlOut.out.sql) = "SELECT * FROM my\"t"

\* C31: expiration is lazy. An entry leaves the cache only through a Get of
\* its own key that finds it expired, a Delete of its key, a Clear, or the
\* eviction of the least recently used entry by a Set of a new key; the
\* passing of time removes nothing. An expired entry counts toward capacity:
\* a Set of a new key into a full cache evicts the back of the recency list,
\* expired or not, and leaves every other entry, expired ones included.
Leaves(k) == mc.items[k] # Nil /\ mc'.items[k] = Nil
FullCache == mc.maxSize > 0 /\ Len(mc.evictList) = mc.maxSize
ExpiredKeys(c) ==
    {c.evictList[j].Key : j \in {i \in 1..Len(c.evictList) : Expired(c.evictList[i])}}
C31_ExpirationIsLazy ==
    [][/\ \A k \in Keys : Leaves(k) =>
            \/ /\ last'.op = "Get" /\ last'.key = k
               /\ Expired(ItemOf(mc.evictList, k))
            \/ last'.op = "Delete" /\ last'.key = k
            \/ last'.op = "Clear"
            \/ /\ last'.op = "Set" /\ last'.fresh /\ last'.key # k
               /\ FullCache
               /\ k = Back(mc.evictList)
       /\ (last'.op = "Set" /\ last'.fresh /\ FullCache) =>
            /\ Held(mc) \ Held(mc') = {Back(mc.evictList)}
            /\ ExpiredKeys(mc) \ {Back(mc.evictList)} \subseteq Held(mc')
       /\ last'.op = "Tick" => Held(mc') = Held(mc)]_vars
\* A Set of a new key evicted a live entry while an expired one stays.
C31_Witness ==
    /\ last.op = "Set" /\ last.fresh
    /\ last.live # {}
    /\ ExpiredKeys(mc) \ {last.key} # {}

\* C32: Delete(k) removes exactly the entry of k when k is present and
\* changes nothing when k is absent; every other entry keeps its value, its
\* expiration and its place relative to the others in the recency order.
DeleteStep == last'.op = "Delete" /\ (last' # last \/ mc' # mc)
C32_DeleteRemovesOnlyItsKey ==
    [][DeleteStep =>
        LET k == last'.key
        IN /\ mc'.maxSize = mc.maxSize
           /\ mc'.items = [mc.items EXCEPT ![k] = Nil]
           /\ mc'.evictList = SelectSeq(mc.evictList, LAMBDA item : item.Key # k)
           /\ last'.present <=> k \in Held(mc)
           /\ ~last'.present => mc' = mc]_vars
\* A present key was deleted and two other entries are left.
C32_Witness ==
    /\ last.op = "Delete" /\ last.present
    /\ Len(mc.evictList) >= 2

\* C33: after Clear the index and the recency list are both empty, a Get of
\* any key finds nothing and changes nothing, and the cache is the cache that
\* NewMemoryCache makes for the same capacity, so every later call does to it
\* what it does to a new cache.
C33_ClearLeavesFreshCache ==
    last.op = "Clear" =>
        /\ Held(mc) = {} /\ mc.evictList = <<>>
        /\ \A k \in Keys : ~Get(mc, k).found /\ Get(mc, k).c = mc
        /\ mc = NewMemoryCache(mc.maxSize)
        /\ \A k \in Keys, v \in Values, t \in TTLs :
              Set(mc, k, v, t) = Set(NewMemoryCache(mc.maxSize), k, v, t)
\* A bounded cache that held entries has been cleared.
C33_Witness ==
    /\ last.op = "Clear" /\ Cardinality(last.held) >= 2
    /\ mc.maxSize > 0

\* C38: a Get that finds its key changes the recency order only: the entry
\* moves to the front with the value and expiration it had, the other entries
\* keep their order, and the index and the number of entries stay as they
\* were. A Get of a key that is not in the cache changes nothing at all.
C38_GetHitOnlyPromotes ==
    [][last'.op = "Get" =>
        LET k == last'.key
        IN /\ last'.found =>
                /\ k \in Held(mc)
                /\ mc'.maxSize = mc.maxSize
                /\ mc'.items = mc.items
                /\ Len(mc'.evictList) = Len(mc.evictList)
                /\ mc'.evictList =
                     <<ItemOf(mc.evictList, k)>> \o
                     SelectSeq(mc.evictList, LAMBDA item : item.Key # k)
                /\ last'.value = ItemOf(mc.evictList, k).Value
           /\ k \notin Held(mc) => mc' = mc /\ ~last'.found]_vars
\* A Get found an entry that was not the most recent one and promoted it.
C38_Witness ==
    /\ last.op = "Get" /\ last.found /\ last.moved
    /\ Len(mc.evictList) >= 2
    /\ mc.evictList[1].Key = last.key

\* The pieces of a text that are placeholders, in the order they stand in.
PlaceholderSeq(sql, top) ==
    SelectSeq(sql, LAMBDA piece : \E n \in 1..top : piece = Placeholder(n))
\* The values an entry of a filter map asks to be bound, in order.
Supplied(val) ==
    IF val.t # "Condition" THEN <<val>>
    ELSE IF val.Type = "IN" /\ val.Values[1].t = "slice" THEN val.Values[1].elems
    ELSE val.Values
RECURSIVE SuppliedBy(_)
SuppliedBy(pairs) ==
    IF pairs = <<>> THEN <<>>
    ELSE Supplied(Head(pairs).val) \o SuppliedBy(Tail(pairs))
RECURSIVE EntriesOf(_)
EntriesOf(whereArgs) ==
    IF whereArgs = <<>> THEN <<>>
    ELSE Head(whereArgs).pairs \o EntriesOf(Tail(whereArgs))

\* C34: for a filter of map arguments only, the placeholders of the clause
\* are $n, $n+1, ... in the order they stand in, n being the value *argIndex
\* came in with; the arguments returned are the values of the entries in that
\* same order, one for each placeholder; and *argIndex is left at n plus the
\* number of arguments.
C34_MapFilterNumbersPlaceholders ==
    sqlOut # NotBuilt =>
        LET out == sqlOut.out
            n == sqlIn.argIndex
            top == n + Len(out.clause)
        IN /\ PlaceholderSeq(out.clause, top) =
                [i \in 1..Len(out.args) |-> Placeholder(n + i - 1)]
           /\ out.args = SuppliedBy(EntriesOf(sqlIn.whereArgs))
           /\ out.argIndex = n + Len(out.args)
\* A clause of two conditions was built from a counter above 1, the first
\* condition taking two placeholders.
C34_Witness ==
    /\ sqlOut # NotBuilt
    /\ sqlIn.argIndex > 1
    /\ Len(sqlOut.conditions) = 2
    /\ Len(sqlOut.out.args) >= 3
    /\ sqlOut.out.argIndex = sqlIn.argIndex + Len(sqlOut.out.args)

\* C40: every Condition a constructor returns, nil bounds included, renders
\* to a non-empty fragment, so that no condition of a WHERE clause is empty.
C40_NoEmptyCondition ==
    sqlOut # NotBuilt =>
        \A i \in 1..Len(sqlOut.conditions) : sqlOut.conditions[i] # <<>>
\* Between(nil, nil) stood last in the filter: the clause ends with AND.
C40_Witness ==
    /\ sqlOut # NotBuilt
    /\ \E i \in 1..Len(sqlIn.whereArgs) :
          \E j \in 1..Len(sqlIn.whereArgs[i].pairs) :
              sqlIn.whereArgs[i].pairs[j].val = Between(NilValue, NilValue)
    /\ Len(sqlOut.out.clause) > 2
    /\ sqlOut.out.clause[Len(sqlOut.out.clause)] = " AND "

\* C35: whatever calls have been made, every entry of the table's cache is
\* the encoding of a row whose keyField value, written out, is the key the
\* entry is stored under.
C35_EntriesKeyedByOwnRow ==
    \A i \in 1..Len(mc.evictList) :
        LET entry == mc.evictList[i]
        IN /\ Decodable(entry.Value)
           /\ tbl.CacheKey \in DOMAIN entry.Value
           /\ Sprint(entry.Value[tbl.CacheKey]) = entry.Key
\* The cache holds two rows, one of them just stored by a FetchOne that
\* filtered on the age.
C35_Witness ==
    /\ Len(mc.evictList) = 2
    /\ cl[Scenarist].op = "FetchOne" /\ cl[Scenarist].res.kind = "row"
    /\ ~cl[Scenarist].res.hit
    /\ cl[Scenarist].args = ByAge(InitialAge)
    /\ mc.evictList[1].Value = Marshal(cl[Scenarist].res.row)

\* Every column the filter names has, in the row, the value the filter asks
\* for (the numbers compared as numbers, whatever their Go type).
Satisfies(row, whereArgs) ==
    \A i \in 1..Len(whereArgs) :
        \A col \in DOMAIN whereArgs[i].m :
            col \in DOMAIN row /\ row[col].v = whereArgs[i].m[col].v
\* No call and no goroutine is running, and every row in the cache is the
\* row the store holds now.
NoWriteInProgress ==
    /\ tasks = EmptyBag
    /\ \A c \in Clients : cl[c].pc = "idle"
    /\ \A i \in 1..Len(mc.evictList) :
          \E id \in DOMAIN db :
              /\ db[id].st = "live"
              /\ mc.evictList[i].Value = Marshal(RowOf(db, id))
\* FetchOne has just returned a row from the cache.
HitReturns ==
    /\ cl'[Scenarist] # cl[Scenarist]
    /\ cl'[Scenarist].op = "FetchOne"
    /\ cl'[Scenarist].res.kind = "row"
    /\ cl'[Scenarist].res.hit

\* C37: with no write in progress, a row FetchOne returns from the cache is
\* a row the data store would have returned for the same filter: it meets
\* every condition of the filter, not only the one on the keyField.
C37_HitSatisfiesWholeFilter ==
    [][(NoWriteInProgress /\ HitReturns) =>
          /\ Satisfies(cl'[Scenarist].res.row, cl'[Scenarist].args)
          /\ Select(db, cl'[Scenarist].args) # <<>>]_vars
\* FetchOne({id: 1, age: 26}) has returned the row of age 25 from the cache
\* while the store holds that row with age 25 and nothing else is going on.
C37_Witness ==
    /\ cl[Scenarist].op = "FetchOne" /\ cl[Scenarist].res.kind = "row"
    /\ cl[Scenarist].res.hit
    /\ cl[Scenarist].args = ByIdAndAge(1, FilterAge)
    /\ cl[Scenarist].res.row.age.v = InitialAge
    /\ db[1] = [st |-> "live", age |-> InitialAge]
    /\ tasks = EmptyBag
    /\ Select(db, cl[Scenarist].args) = <<>>

\* The rows the data store has ever returned for an id.
StoreRows ==
    {[id |-> Int32(i), age |-> Int32(a)] :
        i \in DOMAIN db, a \in {InitialAge} \cup Ages}

\* C36: the cache holds a row exactly as the data store returned it; what a
\* caller writes to a row map after Insert, FetchMany or Update has returned
\* it never shows in the cache.
C36_CacheHoldsStoreRows ==
    \A i \in 1..Len(mc.evictList) :
        \E row \in StoreRows : mc.evictList[i].Value = Marshal(row)
\* The cache holds the caller's age for a row the store holds with the age
\* it was inserted with.
C36_Witness ==
    /\ cl[Scenarist].pc = "idle"
    /\ \E i \in 1..Len(mc.evictList) :
          /\ mc.evictList[i].Value.age = Number(ForeignAge)
          /\ \E id \in DOMAIN db :
                /\ mc.evictList[i].Key = ToString(id)
                /\ db[id] = [st |-> "live", age |-> InitialAge]

\* A caller stands in GetConnection and every connection of the pool is out.
Waiting(c) == ops[c].pc \in AcquirePcs /\ pool.acquired = pool.max
\* Some caller is inside an operation and no caller can take a step again.
PoolDeadlock ==
    /\ \E c \in Clients : ops[c].pc # "idle"
    /\ \A c \in Clients : ops[c].pc = "idle" \/ Waiting(c)
    /\ \A c \in Clients : ops[c].pc = "idle" => pool.acquired = pool.max

\* C39: no caller waits for a connection of the pool while it holds one, and
\* so the callers never come to a stand inside CreateTable or another
\* operation, whatever the limit of the pool (1 or more) and however many
\* callers there are.
C39_NeverWaitsWhileHolding ==
    /\ \A c \in Clients : ops[c].pc \in AcquirePcs => ops[c].held = 0
    /\ ~PoolDeadlock
\* With a pool of one connection a single CreateTable waits for ever in
\* GetColumnsFromDB for the connection it holds itself.
C39_Witness ==
    /\ pool = [max |-> 1, acquired |-> 1]
    /\ ops["c1"] = [pc |-> "gc1_acquire", held |-> 1]
    /\ ops["c2"] = IdleOp
    /\ ~ENABLED GetConnection("c1")

====
